---- MODULE Spec2Model ----
(***************************************************************************)
(* Model of the distributed cache: the consistent-hash ring                *)
(* (src/src/consistent_hash.cpp), the cache node with its local store and  *)
(* routing (src/unnamed/part_001) and the peer RPC client (src/Dockerfile, *)
(* lines 60-225).                                                          *)
(*                                                                         *)
(* A std::string is a sequence of tokens: the key "key1" is <<"key1">>,    *)
(* the virtual-node label "server1#0" is <<"server1", "#", 0>>.            *)
(* hash() is MD5 truncated to 32 bits: a fixed total function on strings   *)
(* that is not injective.  The model draws the function once, in Init,     *)
(* from all functions into 0..RingSize-1 and never changes it.             *)
(***************************************************************************)
EXTENDS Integers, FiniteSets, Sequences, TLC

\* ------------------------------------------------------------------------
\* Bounds
\* ------------------------------------------------------------------------
VirtualNodes == 1          \* virtual_nodes of the ConsistentHash object in isolation
RingSize == 2              \* number of hash values (2^32 in the code)
ServerVirtualNodes == 2    \* virtual_nodes of a CacheServer's ring (100 in the code)
NumThreads == 2            \* worker threads running at the same time

\* ------------------------------------------------------------------------
\* Strings, nodes
\* ------------------------------------------------------------------------
IdList == <<"server1", "server2", "server3">>
KeyList == <<"key1", "key2", "key3">>

NodeIds == {IdList[i] : i \in 1..Len(IdList)}
RingKeys == {<<KeyList[1]>>}
Keys == {<<KeyList[1]>>, <<KeyList[2]>>}
Threads == 1..NumThreads
Values == {"value1", "value2"}

IdIndex(id) == CHOOSE i \in 1..Len(IdList) : IdList[i] = id

\* struct Node and the nodes main()/setupCluster construct
MakeNode(node_id, node_host, grpc_p, http_p) ==
    [id |-> node_id, host |-> node_host, grpc_port |-> grpc_p, http_port |-> http_p]

DefaultNode == MakeNode("", "", 0, 0)

ClusterNode(id) == MakeNode(id, id, 50050 + IdIndex(id), 9526 + IdIndex(id))

Nodes == {ClusterNode(id) : id \in NodeIds}

\* ------------------------------------------------------------------------
\* Maps (std::map / std::unordered_map)
\* ------------------------------------------------------------------------
EmptyMap == [x \in {} |-> 0]
Put(m, k, v) == [x \in (DOMAIN m) \cup {k} |-> IF x = k THEN v ELSE m[x]]
Erase(m, k) == [x \in (DOMAIN m) \ {k} |-> m[x]]

\* ------------------------------------------------------------------------
\* State
\* ------------------------------------------------------------------------
VARIABLES
    hashTable,     \* the hash function: string -> ring position
    ring_,         \* ConsistentHash::ring_   (position -> node id), object in isolation
    nodes_,        \* ConsistentHash::nodes_  (node id -> Node), object in isolation
    last,          \* the last ConsistentHash call: operation, arguments, result, object before
    undo,          \* monitor: an addNode of an unregistered node and its removeNode
    seen,          \* monitor: first getNode result per key since the last membership change
    hash_ring_,    \* CacheServer::hash_ring_ of every constructed server
    local_cache_,  \* CacheServer::local_cache_ of every constructed server
    stubs_,        \* GrpcClient::stubs_ of every constructed server
    op,            \* the last CacheServer operation: arguments, result, outbound calls
    shadow,        \* monitor: per server, the value each key was last set to and not deleted
    cache_mutex_,  \* CacheServer::cache_mutex_ of every constructed server: its holder
    thread,        \* the worker threads: the call each one runs and where it is in it
    hop,           \* the RPC the last operation delivered to a peer and what the peer did
    promised,      \* monitor: per key, the value a successful set stored in the cluster
    stubs_mutex_,  \* GrpcClient::stubs_mutex_ of every constructed server: its holder
    created        \* monitor: per server and address, the number of channels created

ringVars == <<ring_, nodes_, last, undo, seen>>
nodeVars == <<hash_ring_, local_cache_, stubs_, op, shadow>>
threadVars == <<cache_mutex_, thread>>
clusterVars == <<hop, promised>>
poolVars == <<stubs_mutex_, created>>
vars == <<hashTable, ring_, nodes_, last, undo, seen, hash_ring_, local_cache_, stubs_, op, shadow,
          cache_mutex_, thread, hop, promised, stubs_mutex_, created>>

\* ------------------------------------------------------------------------
\* ConsistentHash
\* ------------------------------------------------------------------------
getVirtualNodeKey(node_id, index) == <<node_id, "#", index>>

LabelsOf(virtual_nodes) ==
    {getVirtualNodeKey(id, i) : id \in NodeIds, i \in 0..(virtual_nodes - 1)}
Positions == 0..(RingSize - 1)

hash(str) == hashTable[str]

\* a ConsistentHash object
Ring(v, r, n) == [virtual_nodes_ |-> v, ring_ |-> r, nodes_ |-> n]
ConsistentHash(virtual_nodes) == Ring(virtual_nodes, EmptyMap, EmptyMap)

RECURSIVE addVirtualNodes(_, _, _, _)
addVirtualNodes(r, virtual_nodes, node_id, i) ==
    IF i < virtual_nodes
    THEN addVirtualNodes(Put(r, hash(getVirtualNodeKey(node_id, i)), node_id),
                         virtual_nodes, node_id, i + 1)
    ELSE r

\* mutant: the loop starts at index 1
addNode_skipsLabel0(ch, node) ==
    Ring(ch.virtual_nodes_,
         addVirtualNodes(ch.ring_, ch.virtual_nodes_, node.id, 1),
         Put(ch.nodes_, node.id, node))

\* mutant: the positions are shifted by the number of nodes registered so far
addNode_shifted(ch, node) ==
    LET shifted == {(hash(getVirtualNodeKey(node.id, i)) + Cardinality(DOMAIN ch.nodes_)) % RingSize :
                        i \in 0..(ch.virtual_nodes_ - 1)}
    IN  Ring(ch.virtual_nodes_,
             [p \in (DOMAIN ch.ring_) \cup shifted |-> IF p \in shifted THEN node.id ELSE ch.ring_[p]],
             Put(ch.nodes_, node.id, node))

\* mutant: adding a node that is already registered rebuilds the ring from that node alone
addNode_rebuilds(ch, node) ==
    Ring(ch.virtual_nodes_,
         addVirtualNodes(IF node.id \in DOMAIN ch.nodes_ THEN EmptyMap ELSE ch.ring_,
                         ch.virtual_nodes_, node.id, 0),
         Put(ch.nodes_, node.id, node))

addNode(ch, node) ==
    Ring(ch.virtual_nodes_,
         addVirtualNodes(ch.ring_, ch.virtual_nodes_, node.id, 0),
         Put(ch.nodes_, node.id, node))

RECURSIVE eraseVirtualNodes(_, _, _, _)
eraseVirtualNodes(r, virtual_nodes, node_id, i) ==
    IF i < virtual_nodes
    THEN eraseVirtualNodes(Erase(r, hash(getVirtualNodeKey(node_id, i))),
                           virtual_nodes, node_id, i + 1)
    ELSE r

\* mutant: the registry entry is erased, the virtual positions are left behind
removeNode_keepsRing(ch, node_id) ==
    IF node_id \notin DOMAIN ch.nodes_
    THEN ch
    ELSE Ring(ch.virtual_nodes_, ch.ring_, Erase(ch.nodes_, node_id))

\* mutant: the loop stops one label early
removeNode_stopsEarly(ch, node_id) ==
    IF node_id \notin DOMAIN ch.nodes_
    THEN ch
    ELSE Ring(ch.virtual_nodes_,
              eraseVirtualNodes(ch.ring_, ch.virtual_nodes_ - 1, node_id, 0),
              Erase(ch.nodes_, node_id))

\* mutant: no registry lookup, the positions of the labels are erased in any case
removeNode_noFind(ch, node_id) ==
    Ring(ch.virtual_nodes_,
         eraseVirtualNodes(ch.ring_, ch.virtual_nodes_, node_id, 0),
         Erase(ch.nodes_, node_id))

\* mutant: only the positions that still name the node are erased
removeNode_ownedOnly(ch, node_id) ==
    IF node_id \notin DOMAIN ch.nodes_
    THEN ch
    ELSE Ring(ch.virtual_nodes_,
              [p \in {q \in DOMAIN ch.ring_ : ch.ring_[q] # node_id} |-> ch.ring_[p]],
              Erase(ch.nodes_, node_id))

\* mutant: the whole ring is cleared
removeNode_clearsRing(ch, node_id) ==
    IF node_id \notin DOMAIN ch.nodes_
    THEN ch
    ELSE Ring(ch.virtual_nodes_, EmptyMap, Erase(ch.nodes_, node_id))

removeNode(ch, node_id) ==
    IF node_id \notin DOMAIN ch.nodes_
    THEN ch
    ELSE Ring(ch.virtual_nodes_,
              eraseVirtualNodes(ch.ring_, ch.virtual_nodes_, node_id, 0),
              Erase(ch.nodes_, node_id))

\* std::map::end
end == -1

\* std::map::lower_bound: walk the ordered map upwards from hash_value
RECURSIVE lower_bound(_, _)
lower_bound(r, p) ==
    IF \A q \in DOMAIN r : q < p THEN end
    ELSE IF p \in DOMAIN r THEN p
    ELSE lower_bound(r, p + 1)

\* std::map::begin on a non-empty map
begin(r) == lower_bound(r, 0)

Ok(node) == [what |-> "ok", node |-> node]
Throw(what) == [what |-> what, node |-> DefaultNode]
NoNodesAvailable == Throw("No nodes available")

\* mutant: upper_bound instead of lower_bound
getNode_upperBound(ch, key) ==
    IF DOMAIN ch.ring_ = {}
    THEN NoNodesAvailable
    ELSE LET hash_value == hash(key)
             lb == lower_bound(ch.ring_, hash_value + 1)
             it == IF lb = end THEN begin(ch.ring_) ELSE lb
         IN  IF ch.ring_[it] \in DOMAIN ch.nodes_
             THEN Ok(ch.nodes_[ch.ring_[it]])
             ELSE Throw("out_of_range")

\* mutant: the emptiness test looks at the registry instead of the ring
getNode_testsRegistry(ch, key) ==
    IF DOMAIN ch.nodes_ = {}
    THEN NoNodesAvailable
    ELSE LET hash_value == hash(key)
             lb == lower_bound(ch.ring_, hash_value)
             it == IF lb = end THEN begin(ch.ring_) ELSE lb
         IN  IF it = end THEN Throw("out_of_range")
             ELSE IF ch.ring_[it] \in DOMAIN ch.nodes_
             THEN Ok(ch.nodes_[ch.ring_[it]])
             ELSE Throw("out_of_range")

getNode(ch, key) ==
    IF DOMAIN ch.ring_ = {}
    THEN NoNodesAvailable
    ELSE LET hash_value == hash(key)
             lb == lower_bound(ch.ring_, hash_value)
             it == IF lb = end THEN begin(ch.ring_) ELSE lb
         IN  IF ch.ring_[it] \in DOMAIN ch.nodes_
             THEN Ok(ch.nodes_[ch.ring_[it]])
             ELSE Throw("out_of_range")

hasNode(ch, node_id) == node_id \in DOMAIN ch.nodes_

getAllNodes(ch) == {ch.nodes_[id] : id \in DOMAIN ch.nodes_}

\* ------------------------------------------------------------------------
\* The ConsistentHash object in isolation
\* ------------------------------------------------------------------------
This == Ring(VirtualNodes, ring_, nodes_)

NoCall ==
    [op |-> "none", id |-> "", key |-> <<>>, ret |-> Throw("none"),
     pre |-> ConsistentHash(VirtualNodes)]
Call(name, id, key, ret) == [op |-> name, id |-> id, key |-> key, ret |-> ret, pre |-> This]

NoUndo == [id |-> "", pre |-> ConsistentHash(VirtualNodes), done |-> FALSE]
NoneSeen == [k \in RingKeys |-> Throw("none")]

\* the outcome of an RPC as the caller sees it: grpc::Status::ok(), the response's
\* found/success flag and, for Get, the response's value
Reply(ok, flag, value) == [ok |-> ok, flag |-> flag, value |-> value]
NoReply == [ok |-> FALSE, flag |-> FALSE, value |-> "none"]

NoHop == [to |-> "", rpc |-> "none", pre_cache |-> EmptyMap, calls |-> <<>>]
NoOp ==
    [server |-> "", kind |-> "none", key |-> <<>>, value |-> "", ret |-> FALSE,
     out |-> "", threw |-> FALSE, calls |-> <<>>, reply |-> NoReply,
     pre_cache |-> EmptyMap, pre_shadow |-> EmptyMap]

InitRing ==
    /\ hashTable \in [LabelsOf(VirtualNodes) \cup RingKeys -> Positions]
    /\ ring_ = EmptyMap
    /\ nodes_ = EmptyMap
    /\ last = NoCall
    /\ undo = NoUndo
    /\ seen = NoneSeen
    /\ hash_ring_ = EmptyMap
    /\ local_cache_ = EmptyMap
    /\ stubs_ = EmptyMap
    /\ op = NoOp
    /\ shadow = EmptyMap
    /\ cache_mutex_ = EmptyMap
    /\ thread = EmptyMap
    /\ hop = NoHop
    /\ promised = EmptyMap
    /\ stubs_mutex_ = EmptyMap
    /\ created = EmptyMap

ConsistentHash_addNode(node) ==
    LET post == addNode(This, node) IN
    /\ ring_' = post.ring_
    /\ nodes_' = post.nodes_
    /\ last' = Call("addNode", node.id, <<>>, Throw("none"))
    /\ undo' = IF hasNode(This, node.id) THEN NoUndo
               ELSE [id |-> node.id, pre |-> This, done |-> FALSE]
    /\ seen' = NoneSeen
    /\ UNCHANGED <<hashTable, nodeVars, threadVars, clusterVars, poolVars>>

ConsistentHash_removeNode(node_id) ==
    LET post == removeNode(This, node_id) IN
    /\ ring_' = post.ring_
    /\ nodes_' = post.nodes_
    /\ last' = Call("removeNode", node_id, <<>>, Throw("none"))
    /\ undo' = IF undo.id = node_id /\ undo.id # "" /\ ~undo.done
               THEN [undo EXCEPT !.done = TRUE]
               ELSE NoUndo
    /\ seen' = NoneSeen
    /\ UNCHANGED <<hashTable, nodeVars, threadVars, clusterVars, poolVars>>

\* mutant: the lookup consumes the ring entry it matched
ConsistentHash_getNode_consumes(key) ==
    LET ret == getNode(This, key)
        lb == lower_bound(ring_, hash(key))
        it == IF lb = end THEN begin(ring_) ELSE lb
    IN
    /\ last' = Call("getNode", "", key, ret)
    /\ seen' = IF seen[key].what = "none" THEN [seen EXCEPT ![key] = ret] ELSE seen
    /\ ring_' = Erase(ring_, it)
    /\ UNCHANGED <<hashTable, nodes_, undo, nodeVars, threadVars, clusterVars, poolVars>>

ConsistentHash_getNode(key) ==
    LET ret == getNode(This, key) IN
    /\ last' = Call("getNode", "", key, ret)
    /\ seen' = IF seen[key].what = "none" THEN [seen EXCEPT ![key] = ret] ELSE seen
    /\ UNCHANGED <<hashTable, ring_, nodes_, undo, nodeVars, threadVars, clusterVars, poolVars>>

NextRing ==
    \/ \E node \in Nodes : ConsistentHash_addNode(node)
    \/ \E node_id \in NodeIds : ConsistentHash_removeNode(node_id)
    \/ \E key \in RingKeys : ConsistentHash_getNode(key)

SpecRing == InitRing /\ [][NextRing]_vars

\* ------------------------------------------------------------------------
\* Properties of the ring (SpecRing)
\* ------------------------------------------------------------------------
Min(S) == CHOOSE x \in S : \A y \in S : x <= y

EntriesOf(ch, id) == {p \in DOMAIN ch.ring_ : ch.ring_[p] = id}

PositionsOf(id) == {hash(getVirtualNodeKey(id, i)) : i \in 0..(VirtualNodes - 1)}

\* the virtual labels of id hash to VirtualNodes positions that no label of another node hashes to
CollisionFree(id) ==
    /\ Cardinality(PositionsOf(id)) = VirtualNodes
    /\ \A other \in NodeIds \ {id} : PositionsOf(other) \cap PositionsOf(id) = {}

SameOwners(a, b) == \A k \in RingKeys : getNode(a, k) = getNode(b, k)

\* C1 (as stated): every registered node has exactly virtual_nodes_ ring entries.
C1_Original ==
    \A id \in DOMAIN nodes_ : Cardinality(EntriesOf(This, id)) = VirtualNodes

\* C1 (amended): every registered node has at most virtual_nodes_ ring entries, all at
\* positions its own labels hash to, and exactly virtual_nodes_ of them when its labels
\* hash to distinct positions that no other node's label hashes to.
C1_Amended ==
    \A id \in DOMAIN nodes_ :
        /\ EntriesOf(This, id) \subseteq PositionsOf(id)
        /\ Cardinality(EntriesOf(This, id)) <= VirtualNodes
        /\ CollisionFree(id) => Cardinality(EntriesOf(This, id)) = VirtualNodes

C1_Witness ==
    /\ last.op = "removeNode"
    /\ hasNode(last.pre, last.id)
    /\ \E id \in DOMAIN nodes_ :
          CollisionFree(id) /\ Cardinality(EntriesOf(This, id)) = VirtualNodes

\* C2: after removeNode(X), hasNode(X) is false, no ring entry names X, and every key
\* that mapped to X maps to another registered node, or getNode raises NoNodesAvailable
\* when the ring has become empty.
C2_RemoveNode ==
    last.op = "removeNode" =>
        /\ ~hasNode(This, last.id)
        /\ EntriesOf(This, last.id) = {}
        /\ \A k \in RingKeys :
              getNode(last.pre, k).what = "ok" /\ getNode(last.pre, k).node.id = last.id
              => IF DOMAIN ring_ = {}
                 THEN getNode(This, k) = NoNodesAvailable
                 ELSE /\ getNode(This, k).what = "ok"
                      /\ getNode(This, k).node.id # last.id
                      /\ hasNode(This, getNode(This, k).node.id)

C2_Witness ==
    /\ last.op = "removeNode"
    /\ hasNode(last.pre, last.id)
    /\ DOMAIN ring_ # {}
    /\ \E k \in RingKeys :
          getNode(last.pre, k).what = "ok" /\ getNode(last.pre, k).node.id = last.id

\* C3 (as stated): addNode(N) of an unregistered N followed by removeNode(N.id) leaves
\* every key mapped as before the addNode.
C3_Original == undo.done => SameOwners(This, undo.pre)

\* no virtual label of id hashes to a position the ring ch already holds
FreshPositions(ch, id) == PositionsOf(id) \cap DOMAIN ch.ring_ = {}

\* C3 (amended): the same, provided none of N's virtual labels hashes to a position
\* that was already in the ring before the addNode; then ring and registry are restored.
C3_Amended ==
    undo.done /\ FreshPositions(undo.pre, undo.id)
    => SameOwners(This, undo.pre) /\ This = undo.pre

C3_Witness ==
    /\ undo.done
    /\ FreshPositions(undo.pre, undo.id)
    /\ DOMAIN undo.pre.ring_ # {}

\* C4: on a non-empty ring getNode returns the registered node of the entry with the
\* smallest position >= hash(key), or of the smallest position of the ring when no
\* position is >= hash(key).
C4_GetNode ==
    last.op = "getNode" /\ DOMAIN ring_ # {} =>
        LET atOrAfter == {p \in DOMAIN ring_ : p >= hash(last.key)}
            pos == IF atOrAfter # {} THEN Min(atOrAfter) ELSE Min(DOMAIN ring_)
        IN  /\ hasNode(This, ring_[pos])
            /\ last.ret = Ok(nodes_[ring_[pos]])

C4_Witness ==
    /\ last.op = "getNode"
    /\ Cardinality(DOMAIN nodes_) >= 2
    /\ DOMAIN ring_ # {}
    /\ \A p \in DOMAIN ring_ : p < hash(last.key)
    /\ last.ret.what = "ok"

C6_Original ==
    last.op = "getNode" =>
        /\ last.ret = NoNodesAvailable <=> DOMAIN nodes_ = {}
        /\ DOMAIN nodes_ # {} => last.ret.what = "ok" /\ hasNode(This, last.ret.node.id)

\* C6 (amended): getNode raises NoNodesAvailable exactly when the ring holds no position;
\* that is always so when the registry is empty, and on a non-empty ring it returns a
\* registered node.
C6_Amended ==
    last.op = "getNode" =>
        /\ last.ret = NoNodesAvailable <=> DOMAIN ring_ = {}
        /\ DOMAIN nodes_ = {} => last.ret = NoNodesAvailable
        /\ DOMAIN ring_ # {} => last.ret.what = "ok" /\ hasNode(This, last.ret.node.id)

C6_Witness ==
    /\ last.op = "getNode"
    /\ last.ret = NoNodesAvailable
    /\ DOMAIN nodes_ = {}
    /\ seen[last.key] = NoNodesAvailable

\* C21: removeNode(id) of an id that is not registered leaves ring_ and nodes_ as they
\* were and raises nothing, also when a label id#i hashes to a position that the ring
\* holds for a registered node.
C21_RemoveAbsentNoOp ==
    last.op = "removeNode" /\ ~hasNode(last.pre, last.id) =>
        /\ This = last.pre
        /\ last.ret.what = "none"

C21_Witness ==
    /\ last.op = "removeNode"
    /\ ~hasNode(last.pre, last.id)
    /\ \E p \in PositionsOf(last.id) \cap DOMAIN ring_ : hasNode(This, ring_[p])
    /\ This = last.pre

C22_Step ==
    last.op = "addNode" /\ last'.op = "addNode" /\ last'.id = last.id =>
        /\ ring_' = ring_
        /\ nodes_' = nodes_
        /\ last'.ret.what = "none"

\* C22: an addNode(N) that directly follows an addNode(N) of the same node raises nothing
\* and leaves ring_ and nodes_ as the first call left them.
C22_AddNodeIdempotent == [][C22_Step]_vars

\* the node was added again while other nodes are registered
C22_Witness ==
    /\ last.op = "addNode"
    /\ hasNode(last.pre, last.id)
    /\ This = last.pre
    /\ Cardinality(DOMAIN nodes_) >= 2
    /\ EntriesOf(This, last.id) # {}

\* C23: after addNode(B) every position a label of B hashes to names B, also one that
\* named another node A before (last write wins); after removeNode of a registered node
\* no position that one of its labels hashes to is left in the ring, whichever node the
\* position named.
C23_LastWriteWins ==
    /\ last.op = "addNode" =>
          \A p \in PositionsOf(last.id) : p \in DOMAIN ring_ /\ ring_[p] = last.id
    /\ last.op = "removeNode" /\ hasNode(last.pre, last.id) =>
          \A p \in PositionsOf(last.id) : p \notin DOMAIN ring_

\* a registered node was removed while a position of one of its labels named another
\* registered node, which has lost that position
C23_Witness ==
    /\ last.op = "removeNode"
    /\ hasNode(last.pre, last.id)
    /\ \E p \in PositionsOf(last.id) \cap DOMAIN last.pre.ring_ :
          /\ last.pre.ring_[p] # last.id
          /\ hasNode(This, last.pre.ring_[p])
          /\ p \notin DOMAIN ring_

OwnerChanged(k) == getNode(This, k) # getNode(last.pre, k)

\* C24 (as stated): after addNode(N) every key whose owner changed is owned by N, and
\* after removeNode(X) every key whose owner changed was owned by X before the call.
C24_Original ==
    /\ last.op = "addNode" =>
          \A k \in RingKeys :
              OwnerChanged(k) => getNode(This, k).what = "ok" /\ getNode(This, k).node.id = last.id
    /\ last.op = "removeNode" =>
          \A k \in RingKeys :
              OwnerChanged(k) =>
                  getNode(last.pre, k).what = "ok" /\ getNode(last.pre, k).node.id = last.id

\* every position of the ring ch that a label of id hashes to names id
OwnPositionsOnly(ch, id) ==
    \A p \in PositionsOf(id) \cap DOMAIN ch.ring_ : ch.ring_[p] = id

\* C24 (amended): the same for addNode; for removeNode(X) provided no label of X hashes
\* to a ring position that names another node.
C24_Amended ==
    /\ last.op = "addNode" =>
          \A k \in RingKeys :
              OwnerChanged(k) => getNode(This, k).what = "ok" /\ getNode(This, k).node.id = last.id
    /\ last.op = "removeNode" /\ OwnPositionsOnly(last.pre, last.id) =>
          \A k \in RingKeys :
              OwnerChanged(k) =>
                  getNode(last.pre, k).what = "ok" /\ getNode(last.pre, k).node.id = last.id

\* a node that held its own positions was removed and its key went to a remaining node
C24_Witness ==
    /\ last.op = "removeNode"
    /\ hasNode(last.pre, last.id)
    /\ OwnPositionsOnly(last.pre, last.id)
    /\ \E k \in RingKeys : OwnerChanged(k) /\ getNode(This, k).what = "ok"

\* ------------------------------------------------------------------------
\* CacheServer: local store
\* ------------------------------------------------------------------------
\* cache_mutex_ holds the thread that owns it, or NoThread
NoThread == 0

\* mutant: setLocal without its lock_guard
lock_guard_absent(mutex) == TRUE

\* mutant: the mutex is a local of the function, every caller locks one of its own
lock_guard_ownMutex(mutex) == mutex \in Nat

\* std::lock_guard<std::mutex> lock(cache_mutex_): the constructor returns once the
\* mutex is free
lock_guard(mutex) == mutex = NoThread

getLocal(cache, key) ==
    IF key \in DOMAIN cache
    THEN [ret |-> TRUE, value |-> cache[key]]
    ELSE [ret |-> FALSE, value |-> ""]

\* mutant: insert() instead of operator[]: an existing entry is kept
setLocal_insertOnly(cache, key, value) ==
    [ret |-> TRUE, cache |-> IF key \in DOMAIN cache THEN cache ELSE Put(cache, key, value)]

setLocal(cache, key, value) == [ret |-> TRUE, cache |-> Put(cache, key, value)]

\* mutant: the result of erase(key) is not looked at
delLocal_alwaysTrue(cache, key) == [ret |-> TRUE, cache |-> Erase(cache, key)]

delLocal(cache, key) ==
    IF key \in DOMAIN cache
    THEN [ret |-> TRUE, cache |-> Erase(cache, key)]
    ELSE [ret |-> FALSE, cache |-> cache]

\* ------------------------------------------------------------------------
\* GrpcClient
\* ------------------------------------------------------------------------
getNodeAddress(node) == <<node.host, ":", node.grpc_port>>

\* the pool holds one stub per address; a stub is named by the address of its channel
\* mutant: no lookup, a channel is created on every call and replaces the pooled one
getStub_replaces(stubs, node) ==
    LET address == getNodeAddress(node) IN
    [stub |-> address, stubs |-> Put(stubs, address, address), created |-> TRUE]

getStub(stubs, node) ==
    LET address == getNodeAddress(node) IN
    IF address \in DOMAIN stubs
    THEN [stub |-> stubs[address], stubs |-> stubs, created |-> FALSE]
    ELSE [stub |-> address, stubs |-> Put(stubs, address, address), created |-> TRUE]

\* mutant: the lock taken in getStub is still held when the call is made
unlock_keeps(mutex) == mutex

\* the lock_guard of getStub goes out of scope when getStub returns
unlock(mutex) == NoThread

RpcCall(rpc, stub, key, value) == [rpc |-> rpc, address |-> stub, key |-> key, value |-> value]

RpcFailed == Reply(FALSE, FALSE, "")
GetReplies == {RpcFailed, Reply(TRUE, FALSE, "")} \cup {Reply(TRUE, TRUE, v) : v \in Values}
SetReplies == {RpcFailed, Reply(TRUE, FALSE, ""), Reply(TRUE, TRUE, "")}
DeleteReplies == SetReplies

\* mutant: the peer's value is not copied into the caller's string
GrpcClient_get_dropsValue(stubs, node, key, reply) ==
    LET s == getStub(stubs, node) IN
    [stubs |-> s.stubs,
     calls |-> <<RpcCall("Get", s.stub, key, "")>>,
     ret   |-> reply.ok /\ reply.flag,
     value |-> ""]

GrpcClient_get(stubs, node, key, reply) ==
    LET s == getStub(stubs, node) IN
    [stubs |-> s.stubs,
     calls |-> <<RpcCall("Get", s.stub, key, "")>>,
     ret   |-> reply.ok /\ reply.flag,
     value |-> IF reply.ok /\ reply.flag THEN reply.value ELSE ""]

\* mutant: a failed call is sent a second time
GrpcClient_set_retries(stubs, node, key, value, reply) ==
    LET s == getStub(stubs, node) IN
    [stubs |-> s.stubs,
     calls |-> IF reply.ok
               THEN <<RpcCall("Set", s.stub, key, value)>>
               ELSE <<RpcCall("Set", s.stub, key, value), RpcCall("Set", s.stub, key, value)>>,
     ret   |-> reply.ok /\ reply.flag,
     value |-> ""]

GrpcClient_set(stubs, node, key, value, reply) ==
    LET s == getStub(stubs, node) IN
    [stubs |-> s.stubs,
     calls |-> <<RpcCall("Set", s.stub, key, value)>>,
     ret   |-> reply.ok /\ reply.flag,
     value |-> ""]

\* mutant: only the status of the call is looked at, not the peer's answer
GrpcClient_del_statusOnly(stubs, node, key, reply) ==
    LET s == getStub(stubs, node) IN
    [stubs |-> s.stubs,
     calls |-> <<RpcCall("Delete", s.stub, key, "")>>,
     ret   |-> reply.ok,
     value |-> ""]

GrpcClient_del(stubs, node, key, reply) ==
    LET s == getStub(stubs, node) IN
    [stubs |-> s.stubs,
     calls |-> <<RpcCall("Delete", s.stub, key, "")>>,
     ret   |-> reply.ok /\ reply.flag,
     value |-> ""]

\* ------------------------------------------------------------------------
\* CacheServer: construction and routing
\* ------------------------------------------------------------------------
\* the servers that have been constructed
Servers == DOMAIN hash_ring_

\* main(): host = "0.0.0.0", ports by node id
SelfNode(node_id) == MakeNode(node_id, "0.0.0.0", 50050 + IdIndex(node_id), 9526 + IdIndex(node_id))

\* mutant: the constructor builds the ring and does not register the node itself
CacheServer_unregistered(node_id) == ConsistentHash(ServerVirtualNodes)

CacheServer(node_id) == addNode(ConsistentHash(ServerVirtualNodes), SelfNode(node_id))

isLocalKey(s, key) ==
    LET target_node == getNode(hash_ring_[s], key) IN
    IF target_node.what = "ok" THEN target_node.node.id = s ELSE TRUE

\* what a get/set/del leaves behind: its result, the exception it let escape, the calls
\* it issued and the reply it received, the local store and the connection pool
Outcome(ret, value, threw, calls, reply, cache, stubs) ==
    [ret |-> ret, value |-> value, threw |-> threw, calls |-> calls, reply |-> reply,
     cache |-> cache, stubs |-> stubs]

Escapes(s) == Outcome(FALSE, "", TRUE, <<>>, NoReply, local_cache_[s], stubs_[s])

get(s, key, reply) ==
    IF isLocalKey(s, key)
    THEN LET l == getLocal(local_cache_[s], key) IN
         Outcome(l.ret, l.value, FALSE, <<>>, NoReply, local_cache_[s], stubs_[s])
    ELSE LET target_node == getNode(hash_ring_[s], key) IN
         IF target_node.what # "ok" THEN Escapes(s)
         ELSE LET c == GrpcClient_get(stubs_[s], target_node.node, key, reply) IN
              Outcome(c.ret, c.value, FALSE, c.calls, reply, local_cache_[s], c.stubs)

set(s, key, value, reply) ==
    IF isLocalKey(s, key)
    THEN LET l == setLocal(local_cache_[s], key, value) IN
         Outcome(l.ret, "", FALSE, <<>>, NoReply, l.cache, stubs_[s])
    ELSE LET target_node == getNode(hash_ring_[s], key) IN
         IF target_node.what # "ok" THEN Escapes(s)
         ELSE LET c == GrpcClient_set(stubs_[s], target_node.node, key, value, reply) IN
              Outcome(c.ret, "", FALSE, c.calls, reply, local_cache_[s], c.stubs)

del(s, key, reply) ==
    IF isLocalKey(s, key)
    THEN LET l == delLocal(local_cache_[s], key) IN
         Outcome(l.ret, "", FALSE, <<>>, NoReply, l.cache, stubs_[s])
    ELSE LET target_node == getNode(hash_ring_[s], key) IN
         IF target_node.what # "ok" THEN Escapes(s)
         ELSE LET c == GrpcClient_del(stubs_[s], target_node.node, key, reply) IN
              Outcome(c.ret, "", FALSE, c.calls, reply, local_cache_[s], c.stubs)

\* The RPC service handlers: the answer sent back, the local store afterwards and the
\* outbound calls the handler issued
Handled(reply, cache, calls) == [reply |-> reply, cache |-> cache, calls |-> calls]

Get(s, key) ==
    LET l == getLocal(local_cache_[s], key) IN
    Handled(Reply(TRUE, l.ret, l.value), local_cache_[s], <<>>)

\* mutant: the handler goes through the routing entry point CacheServer::set
Set_reroutes(s, key, value) ==
    LET o == set(s, key, value, RpcFailed) IN
    Handled(Reply(TRUE, o.ret, ""), o.cache, o.calls)

Set(s, key, value) ==
    LET l == setLocal(local_cache_[s], key, value) IN
    Handled(Reply(TRUE, l.ret, ""), l.cache, <<>>)

Delete(s, key) ==
    LET l == delLocal(local_cache_[s], key) IN
    Handled(Reply(TRUE, l.ret, ""), l.cache, <<>>)

\* ------------------------------------------------------------------------
\* One CacheServer, its clients and its peers (whole handlers)
\* ------------------------------------------------------------------------
\* The hash of a CacheServer's world: the virtual labels of server1..server3 hash to
\* distinct positions (as the 300 labels of the deployment do under MD5), and the j-th
\* key hashes to the position of the first label of the j-th server.
KeyIndex(key) == CHOOSE j \in 1..Len(KeyList) : <<KeyList[j]>> = key
LabelPosition(label) == label[3] * Len(IdList) + (IdIndex(label[1]) - 1)
KeyPosition(key) ==
    LabelPosition(getVirtualNodeKey(IdList[((KeyIndex(key) - 1) % Len(IdList)) + 1], 0))
HashTableOf(keys) ==
    [str \in LabelsOf(ServerVirtualNodes) \cup keys |->
        IF str \in keys THEN KeyPosition(str) ELSE LabelPosition(str)]
ServerHashTable == HashTableOf(Keys)

\* what the monitor records for a key: the value last set, or that the key was never
\* set, or that its last mutation was a del
NeverSet == "never set"
Deleted == "deleted"
NothingSet == [k \in Keys |-> NeverSet]

InitNode ==
    /\ hashTable = ServerHashTable
    /\ ring_ = EmptyMap
    /\ nodes_ = EmptyMap
    /\ last = NoCall
    /\ undo = NoUndo
    /\ seen = NoneSeen
    /\ \E node_id \in NodeIds : hash_ring_ = [s \in {node_id} |-> CacheServer(s)]
    /\ local_cache_ = [s \in DOMAIN hash_ring_ |-> EmptyMap]
    /\ stubs_ = [s \in DOMAIN hash_ring_ |-> EmptyMap]
    /\ op = NoOp
    /\ shadow = [s \in DOMAIN hash_ring_ |-> NothingSet]
    /\ cache_mutex_ = [s \in DOMAIN hash_ring_ |-> NoThread]
    /\ thread = EmptyMap
    /\ hop = NoHop
    /\ promised = EmptyMap
    /\ stubs_mutex_ = EmptyMap
    /\ created = EmptyMap

Operation(s, kind, key, value, o) ==
    [server |-> s, kind |-> kind, key |-> key, value |-> value, ret |-> o.ret,
     out |-> o.value, threw |-> o.threw, calls |-> o.calls, reply |-> o.reply,
     pre_cache |-> local_cache_[s], pre_shadow |-> shadow[s]]

\* a client operation arriving through the gateway
CacheServer_get(s, key) ==
    \E reply \in GetReplies :
        LET o == get(s, key, reply) IN
        /\ local_cache_' = [local_cache_ EXCEPT ![s] = o.cache]
        /\ stubs_' = [stubs_ EXCEPT ![s] = o.stubs]
        /\ op' = Operation(s, "get", key, "", o)
        /\ UNCHANGED <<hashTable, ringVars, threadVars, clusterVars, poolVars, hash_ring_, shadow>>

CacheServer_set(s, key, value) ==
    \E reply \in SetReplies :
        LET o == set(s, key, value, reply) IN
        /\ local_cache_' = [local_cache_ EXCEPT ![s] = o.cache]
        /\ stubs_' = [stubs_ EXCEPT ![s] = o.stubs]
        /\ op' = Operation(s, "set", key, value, o)
        /\ shadow' = IF isLocalKey(s, key) THEN [shadow EXCEPT ![s][key] = value] ELSE shadow
        /\ UNCHANGED <<hashTable, ringVars, threadVars, clusterVars, poolVars, hash_ring_>>

CacheServer_del(s, key) ==
    \E reply \in DeleteReplies :
        LET o == del(s, key, reply) IN
        /\ local_cache_' = [local_cache_ EXCEPT ![s] = o.cache]
        /\ stubs_' = [stubs_ EXCEPT ![s] = o.stubs]
        /\ op' = Operation(s, "del", key, "", o)
        /\ shadow' = IF isLocalKey(s, key) THEN [shadow EXCEPT ![s][key] = Deleted] ELSE shadow
        /\ UNCHANGED <<hashTable, ringVars, threadVars, clusterVars, poolVars, hash_ring_>>

\* the RPC service handlers, called by a peer
Service_Get(s, key) ==
    LET l == getLocal(local_cache_[s], key) IN
    /\ op' = Operation(s, "Get", key, "",
                       Outcome(l.ret, l.value, FALSE, <<>>, NoReply, local_cache_[s], stubs_[s]))
    /\ UNCHANGED <<hashTable, ringVars, threadVars, clusterVars, poolVars, hash_ring_, local_cache_, stubs_, shadow>>

Service_Set(s, key, value) ==
    LET l == setLocal(local_cache_[s], key, value) IN
    /\ local_cache_' = [local_cache_ EXCEPT ![s] = l.cache]
    /\ op' = Operation(s, "Set", key, value,
                       Outcome(l.ret, "", FALSE, <<>>, NoReply, l.cache, stubs_[s]))
    /\ shadow' = [shadow EXCEPT ![s][key] = value]
    /\ UNCHANGED <<hashTable, ringVars, threadVars, clusterVars, poolVars, hash_ring_, stubs_>>

Service_Delete(s, key) ==
    LET l == delLocal(local_cache_[s], key) IN
    /\ local_cache_' = [local_cache_ EXCEPT ![s] = l.cache]
    /\ op' = Operation(s, "Delete", key, "",
                       Outcome(l.ret, "", FALSE, <<>>, NoReply, l.cache, stubs_[s]))
    /\ shadow' = [shadow EXCEPT ![s][key] = Deleted]
    /\ UNCHANGED <<hashTable, ringVars, threadVars, clusterVars, poolVars, hash_ring_, stubs_>>

\* membership changes
CacheServer_addNode(s, node) ==
    /\ hash_ring_' = [hash_ring_ EXCEPT ![s] = addNode(hash_ring_[s], node)]
    /\ op' = Operation(s, "addNode", <<>>, node.id,
                       Outcome(TRUE, "", FALSE, <<>>, NoReply, local_cache_[s], stubs_[s]))
    /\ UNCHANGED <<hashTable, ringVars, threadVars, clusterVars, poolVars, local_cache_, stubs_, shadow>>

\* mutant: the server takes itself out of its ring, whichever node is named
CacheServer_removeNode_dropsSelf(s, node_id) ==
    /\ hash_ring_' = [hash_ring_ EXCEPT ![s] = removeNode(hash_ring_[s], s)]
    /\ op' = Operation(s, "removeNode", <<>>, node_id,
                       Outcome(TRUE, "", FALSE, <<>>, NoReply, local_cache_[s], stubs_[s]))
    /\ UNCHANGED <<hashTable, ringVars, threadVars, clusterVars, poolVars, local_cache_, stubs_, shadow>>

CacheServer_removeNode(s, node_id) ==
    /\ hash_ring_' = [hash_ring_ EXCEPT ![s] = removeNode(hash_ring_[s], node_id)]
    /\ op' = Operation(s, "removeNode", <<>>, node_id,
                       Outcome(TRUE, "", FALSE, <<>>, NoReply, local_cache_[s], stubs_[s]))
    /\ UNCHANGED <<hashTable, ringVars, threadVars, clusterVars, poolVars, local_cache_, stubs_, shadow>>

NextNode ==
    \/ \E s \in Servers, key \in Keys : CacheServer_get(s, key)
    \/ \E s \in Servers, key \in Keys, value \in Values : CacheServer_set(s, key, value)
    \/ \E s \in Servers, key \in Keys : CacheServer_del(s, key)
    \/ \E s \in Servers, key \in Keys : Service_Get(s, key)
    \/ \E s \in Servers, key \in Keys, value \in Values : Service_Set(s, key, value)
    \/ \E s \in Servers, key \in Keys : Service_Delete(s, key)
    \/ \E s \in Servers, node \in Nodes : CacheServer_addNode(s, node)
    \/ \E s \in Servers, node_id \in NodeIds : CacheServer_removeNode(s, node_id)

SpecNode == InitNode /\ [][NextNode]_vars

\* ------------------------------------------------------------------------
\* Properties of one CacheServer (SpecNode)
\* ------------------------------------------------------------------------
Owner(s, key) == getNode(hash_ring_[s], key)
OwnsKey(s, key) == Owner(s, key).what = "ok" /\ Owner(s, key).node.id = s
PeerOwnsKey(s, key) == Owner(s, key).what = "ok" /\ Owner(s, key).node.id # s

ClientOp == op.kind \in {"get", "set", "del"}
\* the operation ran against the local store of op.server
ServedLocally ==
    \/ ClientOp /\ isLocalKey(op.server, op.key)
    \/ op.kind \in {"Get", "Set", "Delete"}

Without(cache, key) == [k \in (DOMAIN cache) \ {key} |-> cache[k]]

\* C7: on the node that owns k, get(k) returns (true, v) for the v of the most recent set
\* of k that this node's store served when no del of k followed it, and false when k was
\* never set or its most recent mutation was a del; the store holds exactly the keys and
\* values last set and not deleted, whatever happened to other keys.
C7_GetReturnsLastSet ==
    /\ op.kind = "get" /\ OwnsKey(op.server, op.key) =>
          /\ ~op.threw
          /\ op.ret <=> op.pre_shadow[op.key] \in Values
          /\ op.ret => op.out = op.pre_shadow[op.key]
    /\ \A s \in Servers :
          /\ DOMAIN local_cache_[s] = {k \in Keys : shadow[s][k] \in Values}
          /\ \A k \in DOMAIN local_cache_[s] : local_cache_[s][k] = shadow[s][k]

C7_Witness ==
    /\ op.kind = "get" /\ OwnsKey(op.server, op.key)
    /\ Cardinality(DOMAIN hash_ring_[op.server].nodes_) >= 2
    /\ op.ret /\ op.out = "value2"
    /\ \E k \in Keys \ {op.key} : shadow[op.server][k] = "value1"

\* C8: a local del(k) returns true iff k was in the local store just before it, and k is
\* gone afterwards with every other entry untouched; when the last mutation of k was a
\* del it returns false and changes nothing; a local set returns true.
C8_DelAndSetResults ==
    /\ ServedLocally /\ op.kind \in {"del", "Delete"} =>
          /\ op.ret <=> op.key \in DOMAIN op.pre_cache
          /\ local_cache_[op.server] = Without(op.pre_cache, op.key)
          /\ op.pre_shadow[op.key] = Deleted =>
                ~op.ret /\ local_cache_[op.server] = op.pre_cache
    /\ ServedLocally /\ op.kind \in {"set", "Set"} =>
          /\ op.ret
          /\ op.key \in DOMAIN local_cache_[op.server]
          /\ local_cache_[op.server][op.key] = op.value

C8_Witness ==
    /\ op.kind = "del" /\ ServedLocally
    /\ op.pre_shadow[op.key] = Deleted
    /\ ~op.ret
    /\ op.pre_cache # EmptyMap

RpcOf(kind) == CASE kind = "get" -> "Get" [] kind = "set" -> "Set" [] kind = "del" -> "Delete"

\* C10: a get/set/del on a key the node owns issues no remote call; on a key a peer owns
\* it issues exactly one call of the matching kind to the registered address of that
\* peer, leaves the caller's local store as it was, and issues no second call when the
\* first fails.
C10_Routing ==
    ClientOp =>
        /\ OwnsKey(op.server, op.key) => op.calls = <<>> /\ ~op.threw
        /\ PeerOwnsKey(op.server, op.key) =>
              /\ op.calls = <<RpcCall(RpcOf(op.kind),
                                      getNodeAddress(Owner(op.server, op.key).node),
                                      op.key, op.value)>>
              /\ local_cache_[op.server] = op.pre_cache
              /\ ~op.threw

C10_Witness ==
    /\ op.kind = "set"
    /\ PeerOwnsKey(op.server, op.key)
    /\ op.reply = RpcFailed
    /\ Len(op.calls) = 1
    /\ ~op.ret
    /\ op.pre_cache # EmptyMap

\* C13: for a key owned by a peer, set returns true iff the call completed OK and the
\* peer reported success; del returns the peer's reported result when the call completed
\* OK and false otherwise; get returns found with the peer's value iff the call completed
\* OK and the peer reported found, and not-found with no value in every other case.
C13_RemoteResults ==
    ClientOp /\ PeerOwnsKey(op.server, op.key) =>
        /\ op.kind = "set" => (op.ret <=> op.reply.ok /\ op.reply.flag)
        /\ op.kind = "del" => op.ret = (IF op.reply.ok THEN op.reply.flag ELSE FALSE)
        /\ op.kind = "get" =>
              /\ op.ret <=> op.reply.ok /\ op.reply.flag
              /\ op.out = (IF op.reply.ok /\ op.reply.flag THEN op.reply.value ELSE "")

C13_Witness ==
    /\ op.kind = "del"
    /\ PeerOwnsKey(op.server, op.key)
    /\ op.reply = Reply(TRUE, FALSE, "")
    /\ ~op.ret
    /\ Len(op.calls) = 1

\* a server whose ring is the ring its constructor built: itself and no peer
AsConstructed(s) == hash_ring_[s] = CacheServer(s)

C18_Step ==
    \A s \in Servers :
        AsConstructed(s) =>
            /\ DOMAIN hash_ring_[s].nodes_ = {s}
            /\ Cardinality({p \in DOMAIN hash_ring_[s].ring_ : hash_ring_[s].ring_[p] = s})
                  = ServerVirtualNodes
            /\ \A key \in Keys : OwnsKey(s, key)
            /\ op' # op /\ op'.server = s /\ op'.kind \in {"get", "set", "del"} =>
                  /\ op'.calls = <<>>
                  /\ ~op'.threw
                  /\ stubs_' = stubs_
                  /\ op'.kind = "get" =>
                        /\ op'.ret <=> op'.key \in DOMAIN local_cache_[s]
                        /\ op'.ret => op'.out = local_cache_[s][op'.key]
                  /\ op'.kind = "set" =>
                        op'.ret /\ local_cache_'[s] = Put(local_cache_[s], op'.key, op'.value)
                  /\ op'.kind = "del" =>
                        /\ op'.ret <=> op'.key \in DOMAIN local_cache_[s]
                        /\ local_cache_'[s] = Without(local_cache_[s], op'.key)

\* C18: a server whose ring is as its constructor left it has itself registered with
\* all its virtual positions and owns every key, and each get/set/del it runs is served
\* from its local store without a remote call.
C18_SelfRegistered == [][C18_Step]_vars

C18_Witness ==
    /\ op.kind = "get"
    /\ AsConstructed(op.server)
    /\ stubs_[op.server] = EmptyMap
    /\ op.ret /\ op.out = "value1"
    /\ op.calls = <<>>

\* ------------------------------------------------------------------------
\* Threads of one CacheServer running set calls at the same time (statement by statement)
\* ------------------------------------------------------------------------
\* Every HTTP request and every RPC runs on a thread of its own.  Thread t stores the
\* t-th key, entering through the gateway (CacheServer::set) or through the RPC
\* handler (CacheServer::Set).
ThreadKeys == {<<KeyList[t]>> : t \in Threads}
Entries == {"set", "Set"}

Thread(s, entry, key, value) ==
    [server |-> s, entry |-> entry, key |-> key, value |-> value, pc |-> "start", ret |-> FALSE]

InitThreads ==
    /\ hashTable = HashTableOf(ThreadKeys)
    /\ ring_ = EmptyMap
    /\ nodes_ = EmptyMap
    /\ last = NoCall
    /\ undo = NoUndo
    /\ seen = NoneSeen
    /\ \E node_id \in NodeIds : hash_ring_ = [s \in {node_id} |-> CacheServer(s)]
    /\ local_cache_ = [s \in DOMAIN hash_ring_ |-> EmptyMap]
    /\ stubs_ = [s \in DOMAIN hash_ring_ |-> EmptyMap]
    /\ op = NoOp
    /\ shadow = [s \in DOMAIN hash_ring_ |-> NothingSet]
    /\ cache_mutex_ = [s \in DOMAIN hash_ring_ |-> NoThread]
    /\ \E entry \in [Threads -> Entries], value \in [Threads -> Values] :
          thread = [t \in Threads |->
                       Thread(CHOOSE s \in DOMAIN hash_ring_ : TRUE, entry[t], <<KeyList[t]>>, value[t])]
    /\ hop = NoHop
    /\ promised = EmptyMap
    /\ stubs_mutex_ = EmptyMap
    /\ created = EmptyMap

\* the other threads that are between the lock and the unlock of setLocal
InsideSetLocal(t) ==
    {u \in Threads \ {t} : thread[u].server = thread[t].server /\ thread[u].pc \in {"write", "unlock"}}

\* local_cache_[key] = value.  Alone in the critical section it stores the entry; run
\* together with another writer of the same unordered_map it is a data race, after which
\* the entry may be stored, or lost, or the other writer's entry may be lost.
WriteOutcomes(t) ==
    LET cache == local_cache_[thread[t].server]
        stored == setLocal(cache, thread[t].key, thread[t].value).cache
    IN  IF InsideSetLocal(t) = {}
        THEN {stored}
        ELSE {stored, cache} \cup {Erase(stored, thread[u].key) : u \in InsideSetLocal(t)}

\* CacheServer::set up to its call of setLocal, or CacheServer::Set up to the same call;
\* a key of another node is forwarded and the call is over
Thread_call(t) ==
    LET c == thread[t] IN
    /\ c.pc = "start"
    /\ IF c.entry = "Set" \/ isLocalKey(c.server, c.key)
       THEN /\ thread' = [thread EXCEPT ![t].pc = "lock"]
            /\ UNCHANGED stubs_
       ELSE \E reply \in SetReplies :
               LET o == set(c.server, c.key, c.value, reply) IN
               /\ thread' = [thread EXCEPT ![t].pc = "done", ![t].ret = o.ret]
               /\ stubs_' = [stubs_ EXCEPT ![c.server] = o.stubs]
    /\ UNCHANGED <<hashTable, ringVars, clusterVars, poolVars, hash_ring_, local_cache_, op, shadow, cache_mutex_>>

setLocal_lock(t) ==
    LET c == thread[t] IN
    /\ c.pc = "lock"
    /\ lock_guard(cache_mutex_[c.server])
    /\ cache_mutex_' = [cache_mutex_ EXCEPT ![c.server] = t]
    /\ thread' = [thread EXCEPT ![t].pc = "write"]
    /\ UNCHANGED <<hashTable, ringVars, clusterVars, poolVars, hash_ring_, local_cache_, stubs_, op, shadow>>

setLocal_write(t) ==
    LET c == thread[t] IN
    /\ c.pc = "write"
    /\ \E cache \in WriteOutcomes(t) : local_cache_' = [local_cache_ EXCEPT ![c.server] = cache]
    /\ thread' = [thread EXCEPT ![t].pc = "unlock"]
    /\ UNCHANGED <<hashTable, ringVars, clusterVars, poolVars, hash_ring_, stubs_, op, shadow, cache_mutex_>>

\* return true: the lock_guard goes out of scope
setLocal_return(t) ==
    LET c == thread[t] IN
    /\ c.pc = "unlock"
    /\ cache_mutex_' = [cache_mutex_ EXCEPT ![c.server] = NoThread]
    /\ thread' = [thread EXCEPT ![t].pc = "done", ![t].ret = TRUE]
    /\ UNCHANGED <<hashTable, ringVars, clusterVars, poolVars, hash_ring_, local_cache_, stubs_, op, shadow>>

NextThreads ==
    \/ \E t \in Threads : Thread_call(t)
    \/ \E t \in Threads : setLocal_lock(t)
    \/ \E t \in Threads : setLocal_write(t)
    \/ \E t \in Threads : setLocal_return(t)

SpecThreads == InitThreads /\ [][NextThreads]_vars

\* ------------------------------------------------------------------------
\* Properties of concurrent set calls (SpecThreads)
\* ------------------------------------------------------------------------
AllReturned == DOMAIN thread = Threads /\ \A t \in Threads : thread[t].pc = "done"

\* C9: whatever the interleaving of N concurrent set calls on N distinct keys against
\* one node's local store (through the gateway or through the RPC Set handler), once
\* all calls have returned the store holds all N keys, each with the value its setter
\* wrote, and every call returned true.
C9_ConcurrentSets ==
    AllReturned =>
        \A t \in Threads :
            /\ thread[t].ret
            /\ thread[t].key \in DOMAIN local_cache_[thread[t].server]
            /\ local_cache_[thread[t].server][thread[t].key] = thread[t].value
            /\ DOMAIN local_cache_[thread[t].server] = ThreadKeys

\* all calls have returned, some of them made through the gateway and some through the
\* RPC handler, and the store holds N keys
C9_Witness ==
    /\ AllReturned
    /\ NumThreads >= 2
    /\ {thread[t].entry : t \in Threads} = Entries
    /\ \A s \in Servers : Cardinality(DOMAIN local_cache_[s]) = NumThreads

\* ------------------------------------------------------------------------
\* A cluster of two CacheServers: a forwarded call runs the peer's handler
\* ------------------------------------------------------------------------
\* the two nodes of the cluster
Cluster == {IdList[1], IdList[2]}
ClusterNodes == {ClusterNode(id) : id \in Cluster}

\* the server that listens on an address: serverN is reached at serverN:5005N
Listener(address) == {p \in Servers : getNodeAddress(ClusterNode(p)) = address}

Handler(p, kind, key, value) ==
    CASE kind = "get" -> Get(p, key)
      [] kind = "set" -> Set(p, key, value)
      [] kind = "del" -> Delete(p, key)

Routed(s, kind, key, value, reply) ==
    CASE kind = "get" -> get(s, key, reply)
      [] kind = "set" -> set(s, key, value, reply)
      [] kind = "del" -> del(s, key, reply)

\* every ring of the cluster holds the same node ids
Agreed == \A s, p \in Servers : DOMAIN hash_ring_[s].nodes_ = DOMAIN hash_ring_[p].nodes_

NothingPromised == [k \in RingKeys |-> NeverSet]

InitCluster ==
    /\ hashTable = HashTableOf(RingKeys)
    /\ ring_ = EmptyMap
    /\ nodes_ = EmptyMap
    /\ last = NoCall
    /\ undo = NoUndo
    /\ seen = NoneSeen
    /\ hash_ring_ = [s \in Cluster |-> CacheServer(s)]
    /\ local_cache_ = [s \in Cluster |-> EmptyMap]
    /\ stubs_ = [s \in Cluster |-> EmptyMap]
    /\ op = NoOp
    /\ shadow = [s \in Cluster |-> NothingSet]
    /\ cache_mutex_ = [s \in Cluster |-> NoThread]
    /\ thread = EmptyMap
    /\ hop = NoHop
    /\ promised = NothingPromised
    /\ stubs_mutex_ = EmptyMap
    /\ created = EmptyMap

\* a client operation at server s; when the key belongs to a peer the call either
\* reaches the server listening on the peer's address, whose handler answers it, or
\* fails in transport
Cluster_op(s, kind, key, value) ==
    \E completes \in BOOLEAN :
        LET target == getNode(hash_ring_[s], key)
            remote == ~isLocalKey(s, key) /\ target.what = "ok"
            peers == IF remote THEN Listener(getNodeAddress(target.node)) ELSE {}
            delivered == completes /\ peers # {}
            p == CHOOSE q \in peers : TRUE
            h == IF delivered THEN Handler(p, kind, key, value)
                 ELSE Handled(RpcFailed, EmptyMap, <<>>)
            o == Routed(s, kind, key, value, h.reply)
        IN  /\ remote \/ completes
            /\ local_cache_' = IF delivered
                               THEN [local_cache_ EXCEPT ![s] = o.cache, ![p] = h.cache]
                               ELSE [local_cache_ EXCEPT ![s] = o.cache]
            /\ stubs_' = [stubs_ EXCEPT ![s] = o.stubs]
            /\ op' = [Operation(s, kind, key, value, o) EXCEPT !.calls = o.calls \o h.calls]
            /\ hop' = IF delivered
                      THEN [to |-> p, rpc |-> RpcOf(kind), pre_cache |-> local_cache_[p],
                            calls |-> h.calls]
                      ELSE NoHop
            /\ promised' =
                  CASE kind = "get" -> promised
                    [] kind = "set" -> [promised EXCEPT
                                          ![key] = IF o.ret /\ Agreed THEN value ELSE NeverSet]
                    [] kind = "del" -> [promised EXCEPT ![key] = NeverSet]
            /\ UNCHANGED <<hashTable, ringVars, threadVars, poolVars, hash_ring_, shadow>>

Cluster_addNode(s, node) ==
    /\ hash_ring_' = [hash_ring_ EXCEPT ![s] = addNode(hash_ring_[s], node)]
    /\ op' = Operation(s, "addNode", <<>>, node.id,
                       Outcome(TRUE, "", FALSE, <<>>, NoReply, local_cache_[s], stubs_[s]))
    /\ hop' = NoHop
    /\ promised' = NothingPromised
    /\ UNCHANGED <<hashTable, ringVars, threadVars, poolVars, local_cache_, stubs_, shadow>>

\* mutant: the connection to the removed node is dropped from the pool
Cluster_removeNode_evicts(s, node_id) ==
    /\ hash_ring_' = [hash_ring_ EXCEPT ![s] = removeNode(hash_ring_[s], node_id)]
    /\ op' = Operation(s, "removeNode", <<>>, node_id,
                       Outcome(TRUE, "", FALSE, <<>>, NoReply, local_cache_[s], stubs_[s]))
    /\ hop' = NoHop
    /\ promised' = NothingPromised
    /\ stubs_' = [stubs_ EXCEPT ![s] = Erase(stubs_[s], getNodeAddress(ClusterNode(node_id)))]
    /\ UNCHANGED <<hashTable, ringVars, threadVars, poolVars, local_cache_, shadow>>

Cluster_removeNode(s, node_id) ==
    /\ hash_ring_' = [hash_ring_ EXCEPT ![s] = removeNode(hash_ring_[s], node_id)]
    /\ op' = Operation(s, "removeNode", <<>>, node_id,
                       Outcome(TRUE, "", FALSE, <<>>, NoReply, local_cache_[s], stubs_[s]))
    /\ hop' = NoHop
    /\ promised' = NothingPromised
    /\ UNCHANGED <<hashTable, ringVars, threadVars, poolVars, local_cache_, stubs_, shadow>>

NextCluster ==
    \/ \E s \in Servers, key \in RingKeys : Cluster_op(s, "get", key, "")
    \/ \E s \in Servers, key \in RingKeys, value \in Values : Cluster_op(s, "set", key, value)
    \/ \E s \in Servers, key \in RingKeys : Cluster_op(s, "del", key, "")
    \/ \E s \in Servers, node \in ClusterNodes : Cluster_addNode(s, node)
    \/ \E s \in Servers, node_id \in Cluster : Cluster_removeNode(s, node_id)

SpecCluster == InitCluster /\ [][NextCluster]_vars

\* ------------------------------------------------------------------------
\* Properties of the cluster (SpecCluster)
\* ------------------------------------------------------------------------
Delivered == hop.rpc # "none"

\* C11: an RPC handler acts on the local store of the node that receives the call and
\* issues no outbound call, whatever that node's ring says about the key; so a client
\* operation causes at most one call between nodes, also when the rings disagree.
C11_HandlersLocalOnly ==
    /\ Delivered =>
          /\ hop.calls = <<>>
          /\ hop.to # op.server
          /\ local_cache_[op.server] = op.pre_cache
          /\ hop.rpc = "Get" =>
                /\ local_cache_[hop.to] = hop.pre_cache
                /\ op.reply = Reply(TRUE, op.key \in DOMAIN hop.pre_cache,
                                    IF op.key \in DOMAIN hop.pre_cache
                                    THEN hop.pre_cache[op.key] ELSE "")
          /\ hop.rpc = "Set" =>
                /\ local_cache_[hop.to] = Put(hop.pre_cache, op.key, op.value)
                /\ op.reply = Reply(TRUE, TRUE, "")
          /\ hop.rpc = "Delete" =>
                /\ local_cache_[hop.to] = Without(hop.pre_cache, op.key)
                /\ op.reply = Reply(TRUE, op.key \in DOMAIN hop.pre_cache, "")
    /\ ClientOp => Len(op.calls) <= 1

\* a Set delivered to a node whose own ring names the caller as the owner of the key
C11_Witness ==
    /\ Delivered
    /\ hop.rpc = "Set"
    /\ PeerOwnsKey(hop.to, op.key)
    /\ PeerOwnsKey(op.server, op.key)
    /\ op.ret

C19_Step ==
    op'.kind \in {"addNode", "removeNode"} =>
        /\ local_cache_' = local_cache_
        /\ stubs_' = stubs_
        /\ \A s \in Servers \ {op'.server} : hash_ring_'[s] = hash_ring_[s]

\* C19: addNode and removeNode of a CacheServer change the ring and the registry of that
\* server only; the local store of every node and every connection pool stay as they
\* were, so stored entries are neither moved nor deleted.
C19_MembershipFrame == [][C19_Step]_vars

\* after a membership change a node still holds an entry for a key that a peer now owns,
\* and still holds the connection it had opened
C19_Witness ==
    /\ op.kind \in {"addNode", "removeNode"}
    /\ \E key \in RingKeys :
          /\ PeerOwnsKey(op.server, key)
          /\ key \in DOMAIN local_cache_[op.server]
    /\ stubs_[op.server] # EmptyMap

\* the get ran to completion: served locally, or answered by the peer
Completed == op.calls = <<>> \/ op.reply.ok

NonEmptyMembership == \A s \in Servers : DOMAIN hash_ring_[s].nodes_ # {}

Idle == [server |-> "", kind |-> "none", key |-> <<>>, value |-> "", pc |-> "idle",
         ret |-> FALSE, out |-> "", threw |-> FALSE, route |-> "none", empty |-> FALSE,
         saw |-> "", target |-> ""]

InitRouting ==
    /\ hashTable = ServerHashTable
    /\ ring_ = EmptyMap
    /\ nodes_ = EmptyMap
    /\ last = NoCall
    /\ undo = NoUndo
    /\ seen = NoneSeen
    /\ \E node_id \in NodeIds : hash_ring_ = [s \in {node_id} |-> CacheServer(s)]
    /\ local_cache_ = [s \in DOMAIN hash_ring_ |-> EmptyMap]
    /\ stubs_ = [s \in DOMAIN hash_ring_ |-> EmptyMap]
    /\ op = NoOp
    /\ shadow = [s \in DOMAIN hash_ring_ |-> NothingSet]
    /\ cache_mutex_ = [s \in DOMAIN hash_ring_ |-> NoThread]
    /\ thread = [t \in Threads |-> Idle]
    /\ hop = NoHop
    /\ promised = EmptyMap
    /\ stubs_mutex_ = EmptyMap
    /\ created = EmptyMap

\* a client calls get, set or del
Worker_call(t, s, kind, key, value) ==
    /\ thread[t].pc = "idle"
    /\ thread' = [thread EXCEPT ![t] = [Idle EXCEPT !.server = s, !.kind = kind, !.key = key,
                                                     !.value = value, !.pc = "isLocalKey"]]
    /\ UNCHANGED <<hashTable, ringVars, nodeVars, cache_mutex_, clusterVars, poolVars>>

\* if (isLocalKey(key)) return getLocal/setLocal/delLocal(...)
Worker_isLocalKey(t) ==
    LET c == thread[t]
        s == c.server
        empty == getNode(hash_ring_[s], c.key).what # "ok"
        o == Routed(s, c.kind, c.key, c.value, NoReply)
    IN  /\ c.pc = "isLocalKey"
        /\ IF isLocalKey(s, c.key)
           THEN /\ local_cache_' = [local_cache_ EXCEPT ![s] = o.cache]
                /\ thread' = [thread EXCEPT ![t].pc = "done", ![t].ret = o.ret, ![t].out = o.value,
                                            ![t].route = "local", ![t].empty = empty]
           ELSE /\ thread' = [thread EXCEPT ![t].pc = "getNode", ![t].route = "remote",
                                            ![t].saw = getNode(hash_ring_[s], c.key).node.id]
                /\ UNCHANGED local_cache_
        /\ UNCHANGED <<hashTable, ringVars, hash_ring_, stubs_, op, shadow, cache_mutex_, clusterVars, poolVars>>

\* Node target_node = hash_ring_->getNode(key); return grpc_client_->get/set/del(...)
Worker_getNode(t) ==
    LET c == thread[t]
        s == c.server
        target_node == getNode(hash_ring_[s], c.key)
    IN  /\ c.pc = "getNode"
        /\ IF target_node.what # "ok"
           THEN /\ thread' = [thread EXCEPT ![t].pc = "done", ![t].threw = TRUE, ![t].empty = TRUE]
                /\ UNCHANGED stubs_
           ELSE \E reply \in (CASE c.kind = "get" -> GetReplies
                                [] c.kind = "set" -> SetReplies
                                [] c.kind = "del" -> DeleteReplies) :
                   LET g == CASE c.kind = "get" ->
                                    GrpcClient_get(stubs_[s], target_node.node, c.key, reply)
                              [] c.kind = "set" ->
                                    GrpcClient_set(stubs_[s], target_node.node, c.key, c.value, reply)
                              [] c.kind = "del" ->
                                    GrpcClient_del(stubs_[s], target_node.node, c.key, reply)
                   IN  /\ thread' = [thread EXCEPT ![t].pc = "done", ![t].ret = g.ret,
                                                   ![t].out = g.value,
                                                   ![t].target = target_node.node.id]
                       /\ stubs_' = [stubs_ EXCEPT ![s] = g.stubs]
        /\ UNCHANGED <<hashTable, ringVars, hash_ring_, local_cache_, op, shadow, cache_mutex_,
                       clusterVars, poolVars>>

\* another thread calls CacheServer::addNode / removeNode
Membership_addNode(s, node) ==
    /\ hash_ring_' = [hash_ring_ EXCEPT ![s] = addNode(hash_ring_[s], node)]
    /\ UNCHANGED <<hashTable, ringVars, local_cache_, stubs_, op, shadow, threadVars,
                   clusterVars, poolVars>>

Membership_removeNode(s, node_id) ==
    /\ hash_ring_' = [hash_ring_ EXCEPT ![s] = removeNode(hash_ring_[s], node_id)]
    /\ UNCHANGED <<hashTable, ringVars, local_cache_, stubs_, op, shadow, threadVars,
                   clusterVars, poolVars>>

NextRouting ==
    \/ \E t \in Threads, s \in Servers, key \in RingKeys : Worker_call(t, s, "get", key, "")
    \/ \E t \in Threads, s \in Servers, key \in RingKeys : Worker_call(t, s, "set", key, "value1")
    \/ \E t \in Threads, s \in Servers, key \in RingKeys : Worker_call(t, s, "del", key, "")
    \/ \E t \in Threads : Worker_isLocalKey(t)
    \/ \E t \in Threads : Worker_getNode(t)
    \/ \E s \in Servers, node \in Nodes : Membership_addNode(s, node)
    \/ \E s \in Servers, node_id \in NodeIds : Membership_removeNode(s, node_id)

SpecRouting == InitRouting /\ [][NextRouting]_vars

\* ------------------------------------------------------------------------
\* Properties of the workers (SpecRouting)
\* ------------------------------------------------------------------------
\* C12: get/set/del never let NoNodesAvailable escape, however they interleave with
\* addNode/removeNode: every call returns a boolean result, and a call that finds the
\* ring empty is served from the local store.
C12_NeverPropagates ==
    \A t \in Threads :
        thread[t].pc = "done" =>
            /\ ~thread[t].threw
            /\ thread[t].empty => thread[t].route = "local"

Forwarded(t) == thread[t].pc = "done" /\ thread[t].route = "remote" /\ ~thread[t].threw

\* C28: however get/set/del interleave with addNode/removeNode, the node a call is
\* forwarded to is the owner that isLocalKey saw, and it is never the node itself.
C28_ForwardsToOwnerSeen ==
    \A t \in Threads :
        Forwarded(t) =>
            /\ thread[t].target = thread[t].saw
            /\ thread[t].target # thread[t].server

\* ------------------------------------------------------------------------
\* Workers of one CacheServer using the local store and the connection pool
\* (one step per lock, map access and call)
\* ------------------------------------------------------------------------
NoneCreated == [address \in {getNodeAddress(node) : node \in Nodes} |-> 0]

PoolIdle == [server |-> "", kind |-> "none", key |-> <<>>, value |-> "", pc |-> "idle",
             ret |-> FALSE, out |-> "", node |-> DefaultNode, stub |-> <<>>, answers |-> FALSE]

\* the ring after setupCluster has added the peers
ClusterRing(s) ==
    LET peers == NodeIds \ {s}
        p1 == CHOOSE id \in peers : TRUE
        p2 == CHOOSE id \in peers \ {p1} : TRUE
    IN  addNode(addNode(CacheServer(s), ClusterNode(p1)), ClusterNode(p2))

InitPool ==
    /\ hashTable = ServerHashTable
    /\ ring_ = EmptyMap
    /\ nodes_ = EmptyMap
    /\ last = NoCall
    /\ undo = NoUndo
    /\ seen = NoneSeen
    /\ \E node_id \in NodeIds : hash_ring_ = [s \in {node_id} |-> ClusterRing(s)]
    /\ local_cache_ = [s \in DOMAIN hash_ring_ |-> EmptyMap]
    /\ stubs_ = [s \in DOMAIN hash_ring_ |-> EmptyMap]
    /\ op = NoOp
    /\ shadow = [s \in DOMAIN hash_ring_ |-> NothingSet]
    /\ cache_mutex_ = [s \in DOMAIN hash_ring_ |-> NoThread]
    /\ thread = [t \in Threads |-> PoolIdle]
    /\ hop = NoHop
    /\ promised = EmptyMap
    /\ stubs_mutex_ = [s \in DOMAIN hash_ring_ |-> NoThread]
    /\ created = [s \in DOMAIN hash_ring_ |-> NoneCreated]

\* a client calls get, set or del; the ring says where the key lives
Pool_call(t, s, kind, key, value) ==
    LET target_node == getNode(hash_ring_[s], key) IN
    /\ thread[t].pc = "idle"
    /\ thread' = [thread EXCEPT ![t] =
                     [PoolIdle EXCEPT !.server = s, !.kind = kind, !.key = key, !.value = value,
                                      !.pc = IF isLocalKey(s, key) THEN "lock" ELSE "getStub",
                                      !.node = IF isLocalKey(s, key) THEN DefaultNode
                                               ELSE target_node.node]]
    /\ UNCHANGED <<hashTable, ringVars, nodeVars, cache_mutex_, clusterVars, poolVars>>

\* getLocal/setLocal/delLocal: std::lock_guard<std::mutex> lock(cache_mutex_)
Store_lock(t) ==
    LET c == thread[t] IN
    /\ c.pc = "lock"
    /\ lock_guard(cache_mutex_[c.server])
    /\ cache_mutex_' = [cache_mutex_ EXCEPT ![c.server] = t]
    /\ thread' = [thread EXCEPT ![t].pc = "access"]
    /\ UNCHANGED <<hashTable, ringVars, nodeVars, clusterVars, poolVars>>

\* the find / operator[] / erase on local_cache_
Store_access(t) ==
    LET c == thread[t]
        o == Routed(c.server, c.kind, c.key, c.value, NoReply)
    IN  /\ c.pc = "access"
        /\ local_cache_' = [local_cache_ EXCEPT ![c.server] = o.cache]
        /\ thread' = [thread EXCEPT ![t].pc = "unlock", ![t].ret = o.ret, ![t].out = o.value]
        /\ UNCHANGED <<hashTable, ringVars, hash_ring_, stubs_, op, shadow, cache_mutex_,
                       clusterVars, poolVars>>

Store_return(t) ==
    LET c == thread[t] IN
    /\ c.pc = "unlock"
    /\ cache_mutex_' = [cache_mutex_ EXCEPT ![c.server] = unlock(cache_mutex_[c.server])]
    /\ thread' = [thread EXCEPT ![t].pc = "done"]
    /\ UNCHANGED <<hashTable, ringVars, nodeVars, clusterVars, poolVars>>

\* GrpcClient::getStub: std::lock_guard<std::mutex> lock(stubs_mutex_)
getStub_lock(t) ==
    LET c == thread[t] IN
    /\ c.pc = "getStub"
    /\ lock_guard(stubs_mutex_[c.server])
    /\ stubs_mutex_' = [stubs_mutex_ EXCEPT ![c.server] = t]
    /\ thread' = [thread EXCEPT ![t].pc = "find"]
    /\ UNCHANGED <<hashTable, ringVars, nodeVars, cache_mutex_, clusterVars, created>>

\* stubs_.find(address), and CreateChannel / NewStub / stubs_[address] = ... on a miss
getStub_find(t) ==
    LET c == thread[t]
        address == getNodeAddress(c.node)
        r == getStub(stubs_[c.server], c.node)
    IN  /\ c.pc = "find"
        /\ stubs_' = [stubs_ EXCEPT ![c.server] = r.stubs]
        /\ created' = [created EXCEPT ![c.server][address] = @ + (IF r.created THEN 1 ELSE 0)]
        /\ thread' = [thread EXCEPT ![t].pc = "return", ![t].stub = r.stub]
        /\ UNCHANGED <<hashTable, ringVars, hash_ring_, local_cache_, op, shadow, cache_mutex_,
                       clusterVars, stubs_mutex_>>

\* getStub returns and stub->Get/Set/Delete(&context, request, &response) is called;
\* the ClientContext has no deadline, and the peer answers or never does
getStub_return(t) ==
    LET c == thread[t] IN
    /\ c.pc = "return"
    /\ stubs_mutex_' = [stubs_mutex_ EXCEPT ![c.server] = unlock(stubs_mutex_[c.server])]
    /\ \E answers \in BOOLEAN :
          thread' = [thread EXCEPT ![t].pc = "flight", ![t].answers = answers]
    /\ UNCHANGED <<hashTable, ringVars, nodeVars, cache_mutex_, clusterVars, created>>

RepliesOf(kind) ==
    CASE kind = "get" -> GetReplies [] kind = "set" -> SetReplies [] kind = "del" -> DeleteReplies

\* the blocking call returns with the peer's answer or a failed status
Rpc_reply(t) ==
    LET c == thread[t] IN
    /\ c.pc = "flight"
    /\ c.answers
    /\ \E reply \in RepliesOf(c.kind) :
          thread' = [thread EXCEPT ![t].pc = "done", ![t].ret = reply.ok /\ reply.flag,
                                   ![t].out = IF reply.ok /\ reply.flag THEN reply.value ELSE ""]
    /\ UNCHANGED <<hashTable, ringVars, nodeVars, cache_mutex_, clusterVars, poolVars>>

Worker(t) ==
    \/ Store_lock(t)
    \/ Store_access(t)
    \/ Store_return(t)
    \/ getStub_lock(t)
    \/ getStub_find(t)
    \/ getStub_return(t)
    \/ Rpc_reply(t)

NextPool ==
    \/ \E t \in Threads, s \in Servers, key \in Keys : Pool_call(t, s, "get", key, "")
    \/ \E t \in Threads, s \in Servers, key \in Keys : Pool_call(t, s, "set", key, "value1")
    \/ \E t \in Threads, s \in Servers, key \in Keys : Pool_call(t, s, "del", key, "")
    \/ \E t \in Threads : Store_lock(t)
    \/ \E t \in Threads : Store_access(t)
    \/ \E t \in Threads : Store_return(t)
    \/ \E t \in Threads : getStub_lock(t)
    \/ \E t \in Threads : getStub_find(t)
    \/ \E t \in Threads : getStub_return(t)
    \/ \E t \in Threads : Rpc_reply(t)
    \/ \E s \in Servers : \E node_id \in NodeIds \ {s} : Membership_removeNode(s, node_id)

SpecPool == InitPool /\ [][NextPool]_vars

\* every worker thread is scheduled: a step it can take is eventually taken
SpecPoolFair == SpecPool /\ \A t \in Threads : WF_vars(Worker(t))

\* ------------------------------------------------------------------------
\* Properties of the pool and the locks (SpecPool, SpecPoolFair)
\* ------------------------------------------------------------------------
Addresses == {getNodeAddress(node) : node \in Nodes}
HasStub(c) == c.pc \in {"return", "flight", "done"} /\ c.stub # <<>>

C14_Step ==
    /\ \A s \in Servers : \A address \in DOMAIN stubs_[s] :
          /\ address \in DOMAIN stubs_'[s]
          /\ stubs_'[s][address] = stubs_[s][address]
    /\ \A s \in Servers : \A address \in Addresses :
          /\ created'[s][address] <= 1
          /\ created'[s][address] = 1 <=> address \in DOMAIN stubs_'[s]
    /\ \A t \in Threads :
          HasStub(thread'[t]) =>
              /\ getNodeAddress(thread'[t].node) \in DOMAIN stubs_'[thread'[t].server]
              /\ thread'[t].stub = stubs_'[thread'[t].server][getNodeAddress(thread'[t].node)]

\* C14: however the GrpcClient calls of the workers interleave, at most one handle is
\* ever created per address; the first caller creates it, every later caller gets that
\* same handle, and a pooled entry is never replaced or removed, neither when a call
\* fails nor when the node is removed from the ring.
C14_OneHandlePerAddress == [][C14_Step]_vars

\* two workers hold the one handle of an address whose node has left the ring; the call
\* of one of them has failed
C14_Witness ==
    \E t, u \in Threads :
        /\ t # u
        /\ HasStub(thread[t]) /\ HasStub(thread[u])
        /\ thread[t].node = thread[u].node
        /\ thread[t].pc = "done" /\ ~thread[t].ret
        /\ created[thread[t].server][getNodeAddress(thread[t].node)] = 1
        /\ thread[t].node.id \notin DOMAIN hash_ring_[thread[t].server].nodes_

InFlight(t) == thread[t].pc = "flight"

\* C15: a worker whose RPC is in flight holds neither the pool lock nor the store lock;
\* each lock is held only by a worker that is at the map access it protects, so a peer
\* that is slow to answer keeps no other worker from the pool or from the store.
C15_NoLockAcrossCall ==
    \A s \in Servers :
        /\ \A t \in Threads : InFlight(t) => stubs_mutex_[s] # t /\ cache_mutex_[s] # t
        /\ stubs_mutex_[s] # NoThread => thread[stubs_mutex_[s]].pc \in {"find", "return"}
        /\ cache_mutex_[s] # NoThread => thread[cache_mutex_[s]].pc \in {"access", "unlock"}

\* while the call of one worker waits for a peer that never answers, another worker is
\* inside the pool or the store
C15_Witness ==
    \E t, u \in Threads :
        /\ InFlight(t) /\ ~thread[t].answers
        /\ thread[u].pc \in {"find", "access"}

\* C16: every get/set/del that has started eventually returns to its caller, also when
\* the peer it was forwarded to never answers.
C16_EveryOperationReturns ==
    \A t \in Threads : (thread[t].pc \notin {"idle", "done"}) ~> (thread[t].pc = "done")

\* ------------------------------------------------------------------------
\* One thread changing the membership of a CacheServer's ring while workers read it
\* (one step per statement of addNode/removeNode)
\* ------------------------------------------------------------------------
\* ConsistentHash has no lock: the setupCluster thread (or any caller of
\* CacheServer::addNode/removeNode) writes ring_ and nodes_ while gateway and RPC
\* workers read them.
Changer == 0
ChangerIdle == [pc |-> "idle", kind |-> "none", node |-> DefaultNode, i |-> 0]
ReaderIdle == [pc |-> "idle", call |-> "none", torn |-> FALSE]

\* the node is registered without all of its virtual positions, or holds positions
\* without being registered
Torn(ch) ==
    \E id \in NodeIds :
        LET held == Cardinality({p \in DOMAIN ch.ring_ : ch.ring_[p] = id}) IN
        IF id \in DOMAIN ch.nodes_ THEN held < ch.virtual_nodes_ ELSE held > 0

InitMembership ==
    /\ hashTable = ServerHashTable
    /\ ring_ = EmptyMap
    /\ nodes_ = EmptyMap
    /\ last = NoCall
    /\ undo = NoUndo
    /\ seen = NoneSeen
    /\ \E node_id \in NodeIds : hash_ring_ = [s \in {node_id} |-> CacheServer(s)]
    /\ local_cache_ = [s \in DOMAIN hash_ring_ |-> EmptyMap]
    /\ stubs_ = [s \in DOMAIN hash_ring_ |-> EmptyMap]
    /\ op = NoOp
    /\ shadow = [s \in DOMAIN hash_ring_ |-> NothingSet]
    /\ cache_mutex_ = [s \in DOMAIN hash_ring_ |-> NoThread]
    /\ thread = [t \in {Changer} \cup Threads |-> IF t = Changer THEN ChangerIdle ELSE ReaderIdle]
    /\ hop = NoHop
    /\ promised = EmptyMap
    /\ stubs_mutex_ = [s \in DOMAIN hash_ring_ |-> NoThread]
    /\ created = EmptyMap

MembershipFrame ==
    UNCHANGED <<hashTable, ringVars, local_cache_, stubs_, op, shadow, cache_mutex_,
                clusterVars, poolVars>>

\* addNode: nodes_[node.id] = node
addNode_register(s, node) ==
    /\ thread[Changer].pc = "idle"
    /\ hash_ring_' = [hash_ring_ EXCEPT ![s].nodes_ = Put(@, node.id, node)]
    /\ thread' = [thread EXCEPT ![Changer] = [pc |-> "addNode", kind |-> "addNode",
                                              node |-> node, i |-> 0]]
    /\ MembershipFrame

\* addNode: one iteration of the loop, ring_[hash(label i)] = node.id
addNode_insert(s) ==
    LET c == thread[Changer] IN
    /\ c.pc = "addNode"
    /\ hash_ring_' = [hash_ring_ EXCEPT
                         ![s].ring_ = Put(@, hash(getVirtualNodeKey(c.node.id, c.i)), c.node.id)]
    /\ thread' = [thread EXCEPT ![Changer] =
                     IF c.i + 1 < hash_ring_[s].virtual_nodes_
                     THEN [c EXCEPT !.i = c.i + 1]
                     ELSE ChangerIdle]
    /\ MembershipFrame

\* removeNode: the node is registered, the loop starts
removeNode_find(s, node_id) ==
    /\ thread[Changer].pc = "idle"
    /\ node_id \in DOMAIN hash_ring_[s].nodes_
    /\ thread' = [thread EXCEPT ![Changer] = [pc |-> "removeNode", kind |-> "removeNode",
                                              node |-> hash_ring_[s].nodes_[node_id], i |-> 0]]
    /\ UNCHANGED hash_ring_
    /\ MembershipFrame

\* mutant: the registry entry is erased before the loop instead of after it
removeNode_erase_registryFirst(s) ==
    LET c == thread[Changer] IN
    /\ c.pc = "removeNode"
    /\ IF c.i < hash_ring_[s].virtual_nodes_
       THEN /\ hash_ring_' = [hash_ring_ EXCEPT
                                 ![s].ring_ = Erase(@, hash(getVirtualNodeKey(c.node.id, c.i))),
                                 ![s].nodes_ = Erase(@, c.node.id)]
            /\ thread' = [thread EXCEPT ![Changer].i = c.i + 1]
       ELSE /\ hash_ring_' = [hash_ring_ EXCEPT ![s].nodes_ = Erase(@, c.node.id)]
            /\ thread' = [thread EXCEPT ![Changer] = ChangerIdle]
    /\ MembershipFrame

\* removeNode: one iteration of the loop, ring_.erase(hash(label i)); after the last one
\* nodes_.erase(node_id)
removeNode_erase(s) ==
    LET c == thread[Changer] IN
    /\ c.pc = "removeNode"
    /\ IF c.i < hash_ring_[s].virtual_nodes_
       THEN /\ hash_ring_' = [hash_ring_ EXCEPT
                                 ![s].ring_ = Erase(@, hash(getVirtualNodeKey(c.node.id, c.i)))]
            /\ thread' = [thread EXCEPT ![Changer].i = c.i + 1]
       ELSE /\ hash_ring_' = [hash_ring_ EXCEPT ![s].nodes_ = Erase(@, c.node.id)]
            /\ thread' = [thread EXCEPT ![Changer] = ChangerIdle]
    /\ MembershipFrame

\* a worker reads the ring: getNode(key) (through isLocalKey or get/set/del), hasNode(id)
\* or getAllNodes(); the monitor keeps whether the maps it read were partly changed
Reader_read(t, s, call) ==
    /\ thread[t].pc = "idle"
    /\ thread' = [thread EXCEPT ![t] = [pc |-> "done", call |-> call,
                                        torn |-> Torn(hash_ring_[s])]]
    /\ UNCHANGED hash_ring_
    /\ MembershipFrame

NextMembership ==
    \/ \E s \in Servers, node \in Nodes : addNode_register(s, node)
    \/ \E s \in Servers : addNode_insert(s)
    \/ \E s \in Servers, node_id \in NodeIds : removeNode_find(s, node_id)
    \/ \E s \in Servers : removeNode_erase(s)
    \/ \E t \in Threads, s \in Servers : Reader_read(t, s, "getNode")
    \/ \E t \in Threads, s \in Servers : Reader_read(t, s, "hasNode")
    \/ \E t \in Threads, s \in Servers : Reader_read(t, s, "getAllNodes")

SpecMembership == InitMembership /\ [][NextMembership]_vars

\* C17: a getNode/hasNode/getAllNodes that runs while another thread is inside addNode or
\* removeNode reads the ring as it was before the whole change or as it is after it,
\* never a ring in which a node holds only some of its virtual positions.
C17_AtomicMembership ==
    \A t \in Threads : thread[t].pc = "done" => ~thread[t].torn

\* C27: in every state, the states between two statements of a running addNode or
\* removeNode included, every node id stored in ring_ is registered in nodes_, so a
\* getNode on a non-empty ring finds the node of the ring entry it matched.
C27_RingNamesRegistered ==
    \A s \in Servers :
        /\ \A p \in DOMAIN hash_ring_[s].ring_ :
              hash_ring_[s].ring_[p] \in DOMAIN hash_ring_[s].nodes_
        /\ \A key \in Keys :
              DOMAIN hash_ring_[s].ring_ # {} => getNode(hash_ring_[s], key).what = "ok"

\* a worker has looked a key up while removeNode has erased some of the positions of a
\* node and not yet its registry entry
C27_Witness ==
    /\ thread[Changer].pc = "removeNode"
    /\ thread[Changer].i > 0
    /\ \E s \in Servers :
          /\ thread[Changer].i < hash_ring_[s].virtual_nodes_
          /\ thread[Changer].node.id \in DOMAIN hash_ring_[s].nodes_
          /\ \E p \in DOMAIN hash_ring_[s].ring_ : hash_ring_[s].ring_[p] = thread[Changer].node.id
    /\ \E t \in Threads : thread[t].pc = "done" /\ thread[t].call = "getNode" /\ thread[t].torn

\* ------------------------------------------------------------------------
\* The three processes of the deployment starting up (main and setupCluster)
\* ------------------------------------------------------------------------
\* main() constructs the CacheServer, which registers itself, and detaches a thread that
\* runs setupCluster: it sleeps, then adds server1, server2, server3 in this order,
\* leaving out the node itself.
BootKeys == {<<KeyList[j]>> : j \in 1..Len(KeyList)}

Booting == [pc |-> "sleep", i |-> 1]

InitBootstrap ==
    /\ hashTable = HashTableOf(BootKeys)
    /\ ring_ = EmptyMap
    /\ nodes_ = EmptyMap
    /\ last = NoCall
    /\ undo = NoUndo
    /\ seen = NoneSeen
    /\ hash_ring_ = [s \in NodeIds |-> CacheServer(s)]
    /\ local_cache_ = [s \in NodeIds |-> EmptyMap]
    /\ stubs_ = [s \in NodeIds |-> EmptyMap]
    /\ op = NoOp
    /\ shadow = [s \in NodeIds |-> NothingSet]
    /\ cache_mutex_ = [s \in NodeIds |-> NoThread]
    /\ thread = [s \in NodeIds |-> Booting]
    /\ hop = NoHop
    /\ promised = EmptyMap
    /\ stubs_mutex_ = [s \in NodeIds |-> NoThread]
    /\ created = EmptyMap

BootstrapFrame ==
    UNCHANGED <<hashTable, ring_, nodes_, undo, seen, local_cache_, stubs_, op, shadow,
                cache_mutex_, clusterVars, poolVars>>

\* std::this_thread::sleep_for(std::chrono::seconds(2)) is over
setupCluster_wake(s) ==
    /\ thread[s].pc = "sleep"
    /\ thread' = [thread EXCEPT ![s].pc = "add"]
    /\ UNCHANGED <<hash_ring_, last>>
    /\ BootstrapFrame

\* mutant: the last of the three nodes is never added
setupCluster_addNode_skipsLast(s) ==
    LET i == thread[s].i IN
    /\ thread[s].pc = "add"
    /\ hash_ring_' = IF IdList[i] # s /\ i < Len(IdList)
                     THEN [hash_ring_ EXCEPT ![s] = addNode(@, ClusterNode(IdList[i]))]
                     ELSE hash_ring_
    /\ thread' = [thread EXCEPT ![s] = IF i < Len(IdList)
                                       THEN [pc |-> "add", i |-> i + 1]
                                       ELSE [pc |-> "done", i |-> i]]
    /\ UNCHANGED last
    /\ BootstrapFrame

\* if (node_id != "server<i>") { Node node<i>(...); server->addNode(node<i>); }
setupCluster_addNode(s) ==
    LET i == thread[s].i IN
    /\ thread[s].pc = "add"
    /\ hash_ring_' = IF IdList[i] # s
                     THEN [hash_ring_ EXCEPT ![s] = addNode(@, ClusterNode(IdList[i]))]
                     ELSE hash_ring_
    /\ thread' = [thread EXCEPT ![s] = IF i < Len(IdList)
                                       THEN [pc |-> "add", i |-> i + 1]
                                       ELSE [pc |-> "done", i |-> i]]
    /\ UNCHANGED last
    /\ BootstrapFrame

\* a request is routed at server s: hash_ring_->getNode(key)
Bootstrap_getNode(s, key) ==
    /\ last' = [op |-> "getNode", id |-> s, key |-> key, ret |-> getNode(hash_ring_[s], key),
                pre |-> hash_ring_[s]]
    /\ UNCHANGED <<hash_ring_, thread>>
    /\ BootstrapFrame

NextBootstrap ==
    \/ \E s \in Servers : setupCluster_wake(s)
    \/ \E s \in Servers : setupCluster_addNode(s)
    \/ \E s \in Servers, key \in BootKeys : Bootstrap_getNode(s, key)

SpecBootstrap == InitBootstrap /\ [][NextBootstrap]_vars

\* ------------------------------------------------------------------------
\* Properties of the start-up (SpecBootstrap)
\* ------------------------------------------------------------------------
Registry(s) == DOMAIN hash_ring_[s].nodes_
SetupDone(s) == thread[s].pc = "done"
AllSetupDone == \A s \in Servers : SetupDone(s)

\* C25: a server whose setupCluster has not added anything yet has only itself
\* registered; once setupCluster has run on a server its registry is exactly
\* {server1, server2, server3}; once it has run on all three, every server maps every key
\* to the same owner, and so does every lookup made from then on.
C25_BootstrapConverges ==
    /\ Servers = NodeIds
    /\ \A s \in Servers :
          /\ thread[s].pc = "sleep" => Registry(s) = {s}
          /\ SetupDone(s) => Registry(s) = NodeIds
    /\ AllSetupDone =>
          /\ \A s, p \in Servers : \A key \in BootKeys :
                /\ Owner(s, key).what = "ok"
                /\ Owner(s, key).node.id = Owner(p, key).node.id
          /\ last.op = "getNode" /\ last.pre = hash_ring_[last.id] =>
                \A p \in Servers : last.ret.node.id = Owner(p, last.key).node.id

\* all three servers are set up and a lookup at one of them names another one
C25_Witness ==
    /\ AllSetupDone
    /\ last.op = "getNode"
    /\ last.pre = hash_ring_[last.id]
    /\ last.ret.what = "ok"
    /\ last.ret.node.id # last.id
    /\ {Owner(last.id, key).node.id : key \in BootKeys} = NodeIds

\* ------------------------------------------------------------------------
\* The HTTP gateway of a node in a running cluster: POST / with a JSON object
\* (one step per iteration of the loop over the members)
\* ------------------------------------------------------------------------
\* server1 and server2 are up with all three nodes in their rings; server3 is down.
Gateway == 1

\* Json::Value::getMemberNames(): the member names in ascending order
RECURSIVE getMemberNames(_, _)
getMemberNames(json_data, j) ==
    IF j > Len(KeyList) THEN <<>>
    ELSE IF <<KeyList[j]>> \in DOMAIN json_data
         THEN <<(<<KeyList[j]>>)>> \o getMemberNames(json_data, j + 1)
         ELSE getMemberNames(json_data, j + 1)

\* Json::writeString of a JSON string: the string between double quotes
writeString(json_string) == <<"\"", json_string, "\"">>

\* if (value.front() == '"' && value.back() == '"') value = value.substr(1, length - 2)
stripQuotes(value) ==
    IF Head(value) = "\"" /\ value[Len(value)] = "\""
    THEN SubSeq(value, 2, Len(value) - 1)
    ELSE value

\* the JSON objects a client posts: some of the keys, each with a string
Bodies == UNION {[names -> Values] : names \in SUBSET BootKeys}

GatewayIdle == [pc |-> "idle", server |-> "", body |-> EmptyMap, names |-> <<>>, sets |-> <<>>,
                all_success |-> TRUE, success |-> FALSE]

InitGateway ==
    /\ hashTable = HashTableOf(BootKeys)
    /\ ring_ = EmptyMap
    /\ nodes_ = EmptyMap
    /\ last = NoCall
    /\ undo = NoUndo
    /\ seen = NoneSeen
    /\ hash_ring_ = [s \in Cluster |-> ClusterRing(s)]
    /\ local_cache_ = [s \in Cluster |-> EmptyMap]
    /\ stubs_ = [s \in Cluster |-> EmptyMap]
    /\ op = NoOp
    /\ shadow = [s \in Cluster |-> NothingSet]
    /\ cache_mutex_ = [s \in Cluster |-> NoThread]
    /\ thread = [t \in {Gateway} |-> GatewayIdle]
    /\ hop = NoHop
    /\ promised = EmptyMap
    /\ stubs_mutex_ = [s \in Cluster |-> NoThread]
    /\ created = EmptyMap

GatewayFrame ==
    UNCHANGED <<hashTable, ringVars, hash_ring_, op, shadow, cache_mutex_, clusterVars, poolVars>>

\* handleRequest: method == "POST" && path == "/", reader.parse(body, json_data) succeeds
Gateway_POST(s, body) ==
    /\ thread[Gateway].pc \in {"idle", "done"}
    /\ thread' = [thread EXCEPT ![Gateway] =
                     [GatewayIdle EXCEPT !.pc = "loop", !.server = s, !.body = body,
                                         !.names = getMemberNames(body, 1)]]
    /\ UNCHANGED <<local_cache_, stubs_>>
    /\ GatewayFrame

\* what one server_->set(key, value) of the loop does: stored here, or forwarded to
\* the owner, whose handler stores it when the call gets through
GatewaySet(s, key, value, completes) ==
    LET target == getNode(hash_ring_[s], key)
        remote == ~isLocalKey(s, key) /\ target.what = "ok"
        peers == IF remote THEN Listener(getNodeAddress(target.node)) ELSE {}
        delivered == completes /\ peers # {}
        p == CHOOSE q \in peers : TRUE
        h == IF delivered THEN Set(p, key, value) ELSE Handled(RpcFailed, EmptyMap, <<>>)
        o == set(s, key, value, h.reply)
    IN  [ret |-> o.ret,
         at |-> IF remote THEN target.node.id ELSE s,
         stubs |-> [stubs_ EXCEPT ![s] = o.stubs],
         caches |-> IF delivered
                    THEN [local_cache_ EXCEPT ![s] = o.cache, ![p] = h.cache]
                    ELSE [local_cache_ EXCEPT ![s] = o.cache]]

\* mutant: the response reports the result of the last set only
Gateway_set_lastResult(t) ==
    LET c == thread[t]
        key == Head(c.names)
        value == stripQuotes(writeString(c.body[key]))[1]
    IN  /\ c.pc = "loop"
        /\ c.names # <<>>
        /\ \E completes \in BOOLEAN :
              LET g == GatewaySet(c.server, key, value, completes) IN
              /\ local_cache_' = g.caches
              /\ stubs_' = g.stubs
              /\ thread' = [thread EXCEPT
                               ![t].names = Tail(c.names),
                               ![t].sets = Append(c.sets, [key |-> key, value |-> value,
                                                           ret |-> g.ret, at |-> g.at]),
                               ![t].all_success = g.ret]
        /\ GatewayFrame

\* one iteration: value = writeString(json_data[key]) without its quotes;
\* if (!server_->set(key, value)) all_success = false
Gateway_set(t) ==
    LET c == thread[t]
        key == Head(c.names)
        value == stripQuotes(writeString(c.body[key]))[1]
    IN  /\ c.pc = "loop"
        /\ c.names # <<>>
        /\ \E completes \in BOOLEAN :
              LET g == GatewaySet(c.server, key, value, completes) IN
              /\ local_cache_' = g.caches
              /\ stubs_' = g.stubs
              /\ thread' = [thread EXCEPT
                               ![t].names = Tail(c.names),
                               ![t].sets = Append(c.sets, [key |-> key, value |-> value,
                                                           ret |-> g.ret, at |-> g.at]),
                               ![t].all_success = c.all_success /\ g.ret]
        /\ GatewayFrame

\* json_response["success"] = all_success; 200
Gateway_respond(t) ==
    LET c == thread[t] IN
    /\ c.pc = "loop"
    /\ c.names = <<>>
    /\ thread' = [thread EXCEPT ![t].pc = "done", ![t].success = c.all_success]
    /\ UNCHANGED <<local_cache_, stubs_>>
    /\ GatewayFrame

NextGateway ==
    \/ \E s \in Servers, body \in Bodies : Gateway_POST(s, body)
    \/ Gateway_set(Gateway)
    \/ Gateway_respond(Gateway)

SpecGateway == InitGateway /\ [][NextGateway]_vars

\* ------------------------------------------------------------------------
\* Properties of the gateway (SpecGateway)
\* ------------------------------------------------------------------------
Responded == thread[Gateway].pc = "done"

\* C26: a POST with several pairs has called set exactly once per pair when it responds,
\* and reports success = true iff every one of these sets returned true; every pair
\* whose set returned true is stored at the node that served it, also when another set
\* of the same request failed and the response says success = false.
C26_BatchSet ==
    Responded =>
        LET c == thread[Gateway] IN
        /\ Len(c.sets) = Cardinality(DOMAIN c.body)
        /\ \A key \in DOMAIN c.body :
              \E i \in 1..Len(c.sets) : c.sets[i].key = key /\ c.sets[i].value = c.body[key]
        /\ c.success <=> \A i \in 1..Len(c.sets) : c.sets[i].ret
        /\ \A i \in 1..Len(c.sets) :
              c.sets[i].ret =>
                  /\ c.sets[i].at \in Servers
                  /\ c.sets[i].key \in DOMAIN local_cache_[c.sets[i].at]
                  /\ local_cache_[c.sets[i].at][c.sets[i].key] = c.sets[i].value

\* three pairs: one stored locally, one stored by the peer, one whose owner is down
C26_Witness ==
    /\ Responded
    /\ ~thread[Gateway].success
    /\ Len(thread[Gateway].sets) = 3
    /\ \E i, j, k \in 1..3 :
          /\ thread[Gateway].sets[i].ret /\ thread[Gateway].sets[i].at = thread[Gateway].server
          /\ thread[Gateway].sets[j].ret /\ thread[Gateway].sets[j].at # thread[Gateway].server
          /\ ~thread[Gateway].sets[k].ret /\ thread[Gateway].sets[k].at \notin Servers

\* ------------------------------------------------------------------------
\* Two ConsistentHash objects that are told about nodes in different orders
\* ------------------------------------------------------------------------
\* Every node builds its own ring: setupCluster on server1 adds server2, server3 after
\* the node itself, on server2 it adds server1, server3.  One object receives addNode
\* calls in any order, repetitions included; the other one in the order of IdList.
AnyOrder == IdList[1]
ListOrder == IdList[2]

InitOrder ==
    /\ hashTable \in [LabelsOf(VirtualNodes) \cup RingKeys -> Positions]
    /\ ring_ = EmptyMap
    /\ nodes_ = EmptyMap
    /\ last = NoCall
    /\ undo = NoUndo
    /\ seen = NoneSeen
    /\ hash_ring_ = [s \in {AnyOrder, ListOrder} |-> ConsistentHash(VirtualNodes)]
    /\ local_cache_ = EmptyMap
    /\ stubs_ = EmptyMap
    /\ op = NoOp
    /\ shadow = EmptyMap
    /\ cache_mutex_ = EmptyMap
    /\ thread = [s \in {AnyOrder, ListOrder} |-> <<>>]
    /\ hop = NoHop
    /\ promised = EmptyMap
    /\ stubs_mutex_ = EmptyMap
    /\ created = EmptyMap

\* addNode(node) on object s; thread[s] keeps the ids in the order they were added
Order_addNode(s, node) ==
    /\ Len(thread[s]) < Len(IdList)
    /\ hash_ring_' = [hash_ring_ EXCEPT ![s] = addNode(@, node)]
    /\ thread' = [thread EXCEPT ![s] = Append(@, node.id)]
    /\ UNCHANGED <<hashTable, ringVars, local_cache_, stubs_, op, shadow, cache_mutex_,
                   clusterVars, poolVars>>

NextOrder ==
    \/ \E node \in Nodes : Order_addNode(AnyOrder, node)
    \/ \E node \in Nodes :
          /\ \A i \in 1..Len(thread[ListOrder]) : IdIndex(thread[ListOrder][i]) < IdIndex(node.id)
          /\ Order_addNode(ListOrder, node)

SpecOrder == InitOrder /\ [][NextOrder]_vars

\* ------------------------------------------------------------------------
\* Properties of the order of addNode calls (SpecOrder)
\* ------------------------------------------------------------------------
SameRegistry == DOMAIN hash_ring_[AnyOrder].nodes_ = DOMAIN hash_ring_[ListOrder].nodes_

SameAssignment ==
    \A key \in RingKeys : getNode(hash_ring_[AnyOrder], key) = getNode(hash_ring_[ListOrder], key)

\* C29 (as stated): two objects that received addNode calls for the same set of nodes,
\* in whatever order, return the same owner for every key.
C29_Original == SameRegistry => SameAssignment

\* no two labels of different registered nodes hash to the same position
DistinctPositions(ch) ==
    \A a, b \in DOMAIN ch.nodes_ : a # b => PositionsOf(a) \cap PositionsOf(b) = {}

\* C29 (amended): the same, provided no two virtual labels of different nodes of the set
\* hash to the same position.
C29_Amended == SameRegistry /\ DistinctPositions(hash_ring_[AnyOrder]) => SameAssignment

\* both objects hold the same two or more nodes, added in different orders
C29_Witness ==
    /\ SameRegistry
    /\ DistinctPositions(hash_ring_[AnyOrder])
    /\ Cardinality(DOMAIN hash_ring_[AnyOrder].nodes_) >= 2
    /\ thread[AnyOrder] # thread[ListOrder]
    /\ Len(thread[AnyOrder]) = Len(thread[ListOrder])
    /\ \A key \in RingKeys : getNode(hash_ring_[AnyOrder], key).what = "ok"

\* ------------------------------------------------------------------------
\* Two CacheServers forwarding to each other (one step per lock, map access and call)
\* ------------------------------------------------------------------------
\* On each of the two nodes a gateway thread runs client operations and a thread of
\* the gRPC server runs the handler of the call the peer has sent.
WorkerOf(s) == IdIndex(s)
HandlerOf(s) == Len(IdList) + IdIndex(s)
MutualWorkers == {WorkerOf(s) : s \in Cluster}
MutualHandlers == {HandlerOf(s) : s \in Cluster}
MutualThreads == MutualWorkers \cup MutualHandlers

MutualIdle == [server |-> "", kind |-> "none", key |-> <<>>, value |-> "", pc |-> "idle",
               ret |-> FALSE, out |-> "", node |-> DefaultNode, stub |-> <<>>,
               answers |-> TRUE, caller |-> NoThread]

InitMutual ==
    /\ hashTable = ServerHashTable
    /\ ring_ = EmptyMap
    /\ nodes_ = EmptyMap
    /\ last = NoCall
    /\ undo = NoUndo
    /\ seen = NoneSeen
    /\ hash_ring_ = [s \in Cluster |-> addNode(CacheServer(s),
                                               ClusterNode(CHOOSE p \in Cluster : p # s))]
    /\ local_cache_ = [s \in Cluster |-> EmptyMap]
    /\ stubs_ = [s \in Cluster |-> EmptyMap]
    /\ op = NoOp
    /\ shadow = [s \in Cluster |-> NothingSet]
    /\ cache_mutex_ = [s \in Cluster |-> NoThread]
    /\ thread = [t \in MutualThreads |-> MutualIdle]
    /\ hop = NoHop
    /\ promised = EmptyMap
    /\ stubs_mutex_ = [s \in Cluster |-> NoThread]
    /\ created = [s \in Cluster |-> NoneCreated]

\* mutant: the store lock is taken before the routing decision and kept over the call
Mutual_call_holdsStoreLock(s, kind, key, value) ==
    LET t == WorkerOf(s)
        target_node == getNode(hash_ring_[s], key)
    IN  /\ thread[t].pc \in {"idle", "done"}
        /\ lock_guard(cache_mutex_[s])
        /\ cache_mutex_' = IF isLocalKey(s, key) THEN cache_mutex_
                           ELSE [cache_mutex_ EXCEPT ![s] = t]
        /\ thread' = [thread EXCEPT ![t] =
                         [MutualIdle EXCEPT !.server = s, !.kind = kind, !.key = key,
                                            !.value = value,
                                            !.pc = IF isLocalKey(s, key) THEN "lock" ELSE "getStub",
                                            !.node = IF isLocalKey(s, key) THEN DefaultNode
                                                     ELSE target_node.node]]
        /\ UNCHANGED <<hashTable, ringVars, nodeVars, clusterVars, poolVars>>

\* a client calls get, set or del at server s
Mutual_call(s, kind, key, value) ==
    LET t == WorkerOf(s)
        target_node == getNode(hash_ring_[s], key)
    IN  /\ thread[t].pc \in {"idle", "done"}
        /\ thread' = [thread EXCEPT ![t] =
                         [MutualIdle EXCEPT !.server = s, !.kind = kind, !.key = key,
                                            !.value = value,
                                            !.pc = IF isLocalKey(s, key) THEN "lock" ELSE "getStub",
                                            !.node = IF isLocalKey(s, key) THEN DefaultNode
                                                     ELSE target_node.node]]
        /\ UNCHANGED <<hashTable, ringVars, nodeVars, cache_mutex_, clusterVars, poolVars>>

\* getStub returns; stub->Get/Set/Delete(&context, request, &response) is sent to the
\* server listening on the address and the caller blocks
Mutual_send(t) ==
    LET c == thread[t]
        peers == Listener(getNodeAddress(c.node))
        h == HandlerOf(CHOOSE p \in peers : TRUE)
    IN  /\ c.pc = "return"
        /\ peers # {}
        /\ thread[h].pc = "idle"
        /\ stubs_mutex_' = [stubs_mutex_ EXCEPT ![c.server] = unlock(stubs_mutex_[c.server])]
        /\ thread' = [thread EXCEPT
                         ![t].pc = "flight",
                         ![h] = [MutualIdle EXCEPT !.server = CHOOSE p \in peers : TRUE,
                                                   !.kind = c.kind, !.key = c.key,
                                                   !.value = c.value, !.pc = "lock",
                                                   !.caller = t]]
        /\ UNCHANGED <<hashTable, ringVars, nodeVars, cache_mutex_, clusterVars, created>>

\* CacheServer::Get/Set/Delete: the find / operator[] / erase of getLocal/setLocal/delLocal
Handler_access(h) ==
    LET c == thread[h]
        r == Handler(c.server, c.kind, c.key, c.value)
    IN  /\ c.pc = "access"
        /\ local_cache_' = [local_cache_ EXCEPT ![c.server] = r.cache]
        /\ thread' = [thread EXCEPT ![h].pc = "unlock", ![h].ret = r.reply.flag,
                                    ![h].out = r.reply.value]
        /\ UNCHANGED <<hashTable, ringVars, hash_ring_, stubs_, op, shadow, cache_mutex_,
                       clusterVars, poolVars>>

\* return grpc::Status::OK: the response reaches the caller, whose blocking call returns
\* status.ok() && response.found()/success()
Handler_reply(h) ==
    LET c == thread[h] IN
    /\ c.pc = "done"
    /\ thread' = [thread EXCEPT
                     ![h] = MutualIdle,
                     ![c.caller].pc = "done",
                     ![c.caller].ret = c.ret,
                     ![c.caller].out = IF c.ret THEN c.out ELSE ""]
    /\ UNCHANGED <<hashTable, ringVars, nodeVars, cache_mutex_, clusterVars, poolVars>>

MutualStep(t) ==
    \/ Store_lock(t)
    \/ t \in MutualWorkers /\ Store_access(t)
    \/ Store_return(t)
    \/ getStub_lock(t)
    \/ getStub_find(t)
    \/ Mutual_send(t)
    \/ t \in MutualHandlers /\ Handler_access(t)
    \/ t \in MutualHandlers /\ Handler_reply(t)

NextMutual ==
    \/ \E s \in Servers, key \in Keys : Mutual_call(s, "get", key, "")
    \/ \E s \in Servers, key \in Keys : Mutual_call(s, "set", key, "value1")
    \/ \E s \in Servers, key \in Keys : Mutual_call(s, "del", key, "")
    \/ \E t \in MutualThreads : Store_lock(t)
    \/ \E t \in MutualWorkers : Store_access(t)
    \/ \E t \in MutualThreads : Store_return(t)
    \/ \E t \in MutualWorkers : getStub_lock(t)
    \/ \E t \in MutualWorkers : getStub_find(t)
    \/ \E t \in MutualWorkers : Mutual_send(t)
    \/ \E h \in MutualHandlers : Handler_access(h)
    \/ \E h \in MutualHandlers : Handler_reply(h)

SpecMutual == InitMutual /\ [][NextMutual]_vars

\* every thread is scheduled and each node keeps serving the calls it receives; a
\* thread that waits for a mutex which is released again and again gets it in the end
SpecMutualFair == SpecMutual /\ \A t \in MutualThreads : SF_vars(MutualStep(t))

\* ------------------------------------------------------------------------
\* Properties of mutual forwarding (SpecMutualFair)
\* ------------------------------------------------------------------------
HoldsStoreLock(t) == \E s \in Servers : cache_mutex_[s] = t
HoldsPoolLock(t) == \E s \in Servers : stubs_mutex_[s] = t
Busy(t) == thread[t].pc \notin {"idle", "done"}

LockDiscipline ==
    \A t \in MutualThreads :
        /\ ~(HoldsStoreLock(t) /\ HoldsPoolLock(t))
        /\ thread[t].pc = "flight" => ~HoldsStoreLock(t) /\ ~HoldsPoolLock(t)

\* some thread can take a step whenever an operation is under way
NoDeadlock == (\E t \in MutualWorkers : Busy(t)) => \E t \in MutualThreads : ENABLED MutualStep(t)

\* C30: no thread ever holds the store lock and the pool lock together, and none holds a
\* lock while its call to a peer is in flight; some thread can always take a step while
\* an operation is under way, and every operation that has started returns, also when
\* both nodes forward to each other at the same time.
C30_NoDeadlock ==
    /\ [](LockDiscipline /\ NoDeadlock)
    /\ \A t \in MutualWorkers : Busy(t) ~> (thread[t].pc = "done")

\* both nodes have a call to the other in flight, and both handlers are at work
C30_Witness ==
    /\ \A t \in MutualWorkers : thread[t].pc = "flight"
    /\ \A h \in MutualHandlers : Busy(h)
    /\ \E s \in Servers : cache_mutex_[s] # NoThread

\* ------------------------------------------------------------------------
\* Threads of one CacheServer working on one key of the local store: gateway
\* workers (get/set/del) and RPC handlers (Get/Set/Delete), one step per
\* lock, map access and return
\* ------------------------------------------------------------------------
LinearKey == <<KeyList[1]>>

LinearIdle == [server |-> "", kind |-> "none", key |-> <<>>, value |-> "", pc |-> "idle",
               ret |-> FALSE, out |-> "", rpc |-> FALSE, after |-> {}, it |-> "end"]

\* the store is empty, or an earlier set has left a value under the key (kept in shadow)
InitLinear ==
    /\ hashTable = ServerHashTable
    /\ ring_ = EmptyMap
    /\ nodes_ = EmptyMap
    /\ last = NoCall
    /\ undo = NoUndo
    /\ seen = NoneSeen
    /\ hash_ring_ = [s \in {IdList[1]} |-> CacheServer(s)]
    /\ \E stored \in {EmptyMap} \cup {Put(EmptyMap, LinearKey, v) : v \in Values} :
          /\ local_cache_ = [s \in DOMAIN hash_ring_ |-> stored]
          /\ shadow = [s \in DOMAIN hash_ring_ |->
                          [k \in Keys |-> IF k \in DOMAIN stored THEN stored[k] ELSE NeverSet]]
    /\ stubs_ = [s \in DOMAIN hash_ring_ |-> EmptyMap]
    /\ op = NoOp
    /\ cache_mutex_ = [s \in DOMAIN hash_ring_ |-> NoThread]
    /\ thread = [t \in Threads |-> LinearIdle]
    /\ hop = NoHop
    /\ promised = EmptyMap
    /\ stubs_mutex_ = [s \in DOMAIN hash_ring_ |-> NoThread]
    /\ created = [s \in DOMAIN hash_ring_ |-> NoneCreated]

\* a thread enters get/set/del (from the gateway; the key is local) or Get/Set/Delete
\* (from a peer); `after` holds the threads whose operation had returned by then
Linear_call(t, s, rpc, kind, key, value) ==
    /\ thread[t].pc = "idle"
    /\ rpc \/ isLocalKey(s, key)
    /\ thread' = [thread EXCEPT ![t] =
                     [LinearIdle EXCEPT !.server = s, !.kind = kind, !.key = key,
                                        !.value = value, !.pc = "lock", !.rpc = rpc,
                                        !.after = {u \in Threads : thread[u].pc = "done"}]]
    /\ UNCHANGED <<hashTable, ringVars, nodeVars, cache_mutex_, clusterVars, poolVars>>

\* auto it = local_cache_.find(key) of getLocal and delLocal; setLocal has no lookup
Linear_find(t) ==
    LET c == thread[t] IN
    /\ c.pc = "access"
    /\ thread' = [thread EXCEPT
                     ![t].pc = "apply",
                     ![t].it = IF c.kind # "set" /\ c.key \in DOMAIN local_cache_[c.server]
                               THEN "found" ELSE "end"]
    /\ UNCHANGED <<hashTable, ringVars, nodeVars, cache_mutex_, clusterVars, poolVars>>

\* what *it reads when the entry was erased after the lookup
DanglingRead == Values \cup {""}

\* getLocal: if (it != end) { value = it->second; return true; } return false;
\* setLocal: local_cache_[key] = value; return true;
\* delLocal: if (it != end) { local_cache_.erase(it); return true; } return false;
Linear_apply(t) ==
    LET c == thread[t]
        cache == local_cache_[c.server]
    IN  /\ c.pc = "apply"
        /\ CASE c.kind = "get" ->
                 /\ \E value \in (IF c.it = "end" THEN {""}
                                   ELSE IF c.key \in DOMAIN cache THEN {cache[c.key]}
                                   ELSE DanglingRead) :
                        thread' = [thread EXCEPT ![t].pc = "unlock", ![t].ret = c.it # "end",
                                                 ![t].out = value]
                 /\ UNCHANGED local_cache_
             [] c.kind = "set" ->
                 /\ local_cache_' = [local_cache_ EXCEPT
                                        ![c.server] = setLocal(cache, c.key, c.value).cache]
                 /\ thread' = [thread EXCEPT ![t].pc = "unlock",
                                             ![t].ret = setLocal(cache, c.key, c.value).ret]
             [] c.kind = "del" ->
                 /\ local_cache_' = [local_cache_ EXCEPT
                                        ![c.server] = IF c.it = "end" THEN cache
                                                      ELSE Erase(cache, c.key)]
                 /\ thread' = [thread EXCEPT ![t].pc = "unlock", ![t].ret = c.it # "end"]
        /\ UNCHANGED <<hashTable, ringVars, hash_ring_, stubs_, op, shadow, cache_mutex_,
                       clusterVars, poolVars>>

NextLinear ==
    \/ \E t \in Threads, s \in Servers, rpc \in BOOLEAN :
          Linear_call(t, s, rpc, "get", LinearKey, "")
    \/ \E t \in Threads, s \in Servers, rpc \in BOOLEAN, value \in Values :
          Linear_call(t, s, rpc, "set", LinearKey, value)
    \/ \E t \in Threads, s \in Servers, rpc \in BOOLEAN :
          Linear_call(t, s, rpc, "del", LinearKey, "")
    \/ \E t \in Threads : Store_lock(t)
    \/ \E t \in Threads : Linear_find(t)
    \/ \E t \in Threads : Linear_apply(t)
    \/ \E t \in Threads : Store_return(t)

SpecLinear == InitLinear /\ [][NextLinear]_vars

\* ------------------------------------------------------------------------
\* Properties of the local store under concurrent use (SpecLinear)
\* ------------------------------------------------------------------------
Absent == "<absent>"
\* what the store held under the key before the first operation
InitialContent(s) == IF shadow[s][LinearKey] \in Values THEN shadow[s][LinearKey] ELSE Absent

Invoked == {t \in Threads : thread[t].pc # "idle"}
Returned == {t \in Threads : thread[t].pc = "done"}
Pending == Invoked \ Returned

\* a map with one key, used one operation at a time
SeqResult(t, content) ==
    CASE thread[t].kind = "get" -> <<content # Absent, IF content = Absent THEN "" ELSE content>>
      [] thread[t].kind = "set" -> <<TRUE, "">>
      [] thread[t].kind = "del" -> <<content # Absent, "">>
SeqContent(t, content) ==
    CASE thread[t].kind = "get" -> content
      [] thread[t].kind = "set" -> thread[t].value
      [] thread[t].kind = "del" -> Absent

Result(t) == <<thread[t].ret, thread[t].out>>

\* the operations in `order`, run one after the other from `content`, give every returned
\* operation the result it returned
RECURSIVE Legal(_, _)
Legal(order, content) ==
    IF order = <<>> THEN TRUE
    ELSE LET t == Head(order) IN
         /\ t \in Returned => Result(t) = SeqResult(t, content)
         /\ Legal(Tail(order), SeqContent(t, content))

Orders(S) ==
    {o \in [1..Cardinality(S) -> S] : \A i, j \in 1..Cardinality(S) : o[i] = o[j] => i = j}

\* an operation that returned before another was invoked comes first
RealTime(o) == \A i, j \in DOMAIN o : o[i] \in thread[o[j]].after => i < j

Linearizable ==
    \A s \in Servers :
        \E P \in SUBSET Pending : \E o \in Orders(Returned \cup P) :
            RealTime(o) /\ Legal(o, InitialContent(s))

Written(s) == {thread[t].value : t \in {u \in Invoked : thread[u].kind = "set"}}
                 \cup ({InitialContent(s)} \ {Absent})

GetReturnsWritten ==
    \A t \in Returned :
        thread[t].kind = "get" /\ thread[t].ret => thread[t].out \in Written(thread[t].server)

\* dels on a present key with nothing else under way: one of them erased it
DelOnce ==
    \A s \in Servers :
        /\ InitialContent(s) # Absent
        /\ Invoked # {}
        /\ Pending = {}
        /\ \A t \in Invoked : thread[t].kind = "del"
        => Cardinality({t \in Returned : thread[t].ret}) = 1

\* C31: concurrent get/set/del on one key of a node's local store, from gateway workers
\* and RPC handlers alike, are linearizable: the results returned so far are those of
\* running the operations one at a time in an order that keeps every operation that had
\* returned before another was invoked ahead of it; a get returns only a value that a
\* set wrote, and of the dels on a present key exactly one returns true.
C31_Linearizable == Linearizable /\ GetReturnsWritten /\ DelOnce

\* two overlapping dels, one from the gateway and one from a peer, have both returned,
\* one with true and one with false
C31_Witness ==
    \E t \in Returned : \E u \in Returned \ {t} :
        /\ thread[t].kind = "del" /\ thread[u].kind = "del"
        /\ ~thread[t].rpc /\ thread[u].rpc
        /\ t \notin thread[u].after /\ u \notin thread[t].after
        /\ thread[t].ret # thread[u].ret

\* ------------------------------------------------------------------------
\* A CacheServer's own registration under membership calls (SpecNode)
\* ------------------------------------------------------------------------
\* isLocalKey(key) ends in its catch block: getNode threw and the key is taken as local
FailsOpen(s, key) == getNode(hash_ring_[s], key).what # "ok"

RemovesSelf(s) ==
    op' # op /\ op'.server = s /\ op'.kind = "removeNode" /\ op'.value = s

C32_Step ==
    \A s \in Servers :
        s \in Registry(s) =>
            /\ DOMAIN hash_ring_[s].ring_ # {}
            /\ \A key \in Keys : ~FailsOpen(s, key)
            /\ ~RemovesSelf(s) => s \in DOMAIN hash_ring_'[s].nodes_

====
